---- MODULE Spec2Model ----
(***************************************************************************)
(* Model of the scaling, binning and layout computations of the Hydrograph *)
(* figure of GWHAT (src/gwhat/hydrograph4.py).                             *)
(*                                                                         *)
(* Numbers.  The program computes with numpy float64 values.  A number is  *)
(* modelled as a pair <<n, d>>: for d > 0 the exact fraction n/d in lowest *)
(* terms, and for d = 0 one of the IEEE special values <<1, 0>> (+inf),    *)
(* <<-1, 0>> (-inf) and <<0, 0>> (NaN).  The special values follow the     *)
(* IEEE rules numpy applies (NaN propagates and is never equal to itself,  *)
(* x / 0 is an infinity or NaN); the rounding of float64 is not modelled.  *)
(***************************************************************************)
EXTENDS Integers, Sequences, FiniteSets, TLC

VARIABLES
    \* ---- daily weather series (Hydrograph.__init__, generate_hydrograph)
    TIMEmeteo, TMAX, PTOT, RAIN,
    \* ---- bin redistributed weather; shared holds the names of the binned
    \* ---- series that are the same array object as their daily series
    bTIME, bTMAX, bPTOT, bRAIN, bwidth_indx, bwidth, shared,
    \* ---- water level dataset and value axis
    wldset, WLdatum, NZGrid, WLscale, WLmin,
    \* ---- time axis
    xldates, TIMEmin, TIMEmax, date0, date1,
    \* ---- page setup, weather dataset and the positions of the axes
    fwidth, fheight, va_ratio, __meteo_on, wxdset, isGraphTitle, isLegend, axes,
    \* ---- labels of the time axis
    datemode, date_labels_pattern, language,
    \* ---- make_xticks_info: position in the code, its locals and its result
    pc, next_xtick_pos, xtick_i, xticks_labels_offset, xticks_position,
    xticks_labels_position, xticks_labels, xticks_minor_position, xticks_info,
    \* ---- the figure: the flag of generate_hydrograph, the attributes created
    \* ---- so far, the GLUE and MRC settings and the labels to return to
    __isHydrographExists, created, gluedf, __glue_wl_on, __mrc_wl_on, stack,
    \* ---- limits and ticks of the axes
    axLow_ymax, ax2_ymin, ax2_ymax, ax2_yticks, ax1_xlim,
    \* ---- weather plot: the slice drawn, the bars and the precipitation scale
    istart, iend, PTOT_bar, RAINscale, yticksmax, ax3_ymax, ax3_yticks,
    \* ---- outcome of the last call: the operation and the exception raised
    op, err

binVars  == <<TIMEmeteo, TMAX, PTOT, RAIN, bTIME, bTMAX, bPTOT, bRAIN,
              bwidth_indx, bwidth, shared>>
wlVars   == <<wldset, WLdatum, NZGrid, WLscale, WLmin>>
timeVars == <<xldates, TIMEmin, TIMEmax, date0, date1>>
layoutVars == <<fwidth, fheight, va_ratio, __meteo_on, wxdset, isGraphTitle,
                isLegend, axes>>
tickConfig == <<datemode, date_labels_pattern, language>>
tickLocals == <<next_xtick_pos, xtick_i, xticks_labels_offset, xticks_position,
                xticks_labels_position, xticks_labels, xticks_minor_position>>
tickVars == <<tickConfig, pc, tickLocals, xticks_info>>
figVars  == <<__isHydrographExists, created, gluedf, __glue_wl_on,
              __mrc_wl_on>>
axisVars == <<axLow_ymax, ax2_ymin, ax2_ymax, ax2_yticks, ax1_xlim>>
weatherVars == <<istart, iend, PTOT_bar, RAINscale, yticksmax, ax3_ymax,
                 ax3_yticks>>
plotVars == <<figVars, axisVars, weatherVars, stack>>
vars     == <<binVars, wlVars, timeVars, layoutVars, tickVars, plotVars,
              op, err>>

-----------------------------------------------------------------------------
(* Bounds of the model *)

\* number of complete bins the longest weather series holds
MaxBins == 2
\* number of generated weather datasets
NumPatterns == 3
\* longest water level series
MaxWLLen == 2
\* longest timestamp series
MaxTimeLen == 3
\* longest record of the time axis of the ticks, in years of 360 days
MaxTickYears == 2

-----------------------------------------------------------------------------
(* float64 arithmetic *)

NaN    == <<0, 0>>
PosInf == <<1, 0>>
NegInf == <<-1, 0>>

IAbs(i) == IF i < 0 THEN -i ELSE i
ISign(i) == IF i < 0 THEN -1 ELSE IF i = 0 THEN 0 ELSE 1

RECURSIVE GCD(_, _)
GCD(a, b) == IF b = 0 THEN a ELSE GCD(b, a % b)

\* the number n/d (d # 0) in lowest terms with a positive denominator
Rat(n, d) ==
    LET g == GCD(IAbs(n), IAbs(d))
        s == IF d < 0 THEN -1 ELSE 1
    IN  <<(s * n) \div g, (s * d) \div g>>

Num(i) == <<i, 1>>

IsNaN(x)    == x = NaN
IsFinite(x) == x[2] # 0

FNeg(x) == <<-x[1], x[2]>>

FAdd(x, y) ==
    IF IsNaN(x) \/ IsNaN(y) THEN NaN
    ELSE IF IsFinite(x) /\ IsFinite(y)
         THEN IF x[2] = y[2] THEN Rat(x[1] + y[1], x[2])
              ELSE Rat(x[1] * y[2] + y[1] * x[2], x[2] * y[2])
    ELSE IF IsFinite(x) THEN y
    ELSE IF IsFinite(y) THEN x
    ELSE IF x = y THEN x ELSE NaN

FSub(x, y) == FAdd(x, FNeg(y))

FMul(x, y) ==
    IF IsNaN(x) \/ IsNaN(y) THEN NaN
    ELSE IF IsFinite(x) /\ IsFinite(y) THEN Rat(x[1] * y[1], x[2] * y[2])
    ELSE IF x[1] = 0 \/ y[1] = 0 THEN NaN
    ELSE <<ISign(x[1]) * ISign(y[1]), 0>>

FDiv(x, y) ==
    IF IsNaN(x) \/ IsNaN(y) THEN NaN
    ELSE IF IsFinite(x) /\ IsFinite(y)
         THEN IF y[1] # 0 THEN Rat(x[1] * y[2], x[2] * y[1])
              ELSE <<ISign(x[1]), 0>>
    ELSE IF IsFinite(y) THEN <<ISign(x[1]) * (IF y[1] < 0 THEN -1 ELSE 1), 0>>
    ELSE IF IsFinite(x) THEN Num(0)
    ELSE NaN

FAbs(x) == <<IAbs(x[1]), x[2]>>

\* x == y and x < y of IEEE: false as soon as one side is NaN
FEq(x, y) == ~IsNaN(x) /\ ~IsNaN(y) /\ x = y

FLess(x, y) ==
    /\ ~IsNaN(x) /\ ~IsNaN(y)
    /\ IF IsFinite(x) /\ IsFinite(y) THEN x[1] * y[2] < y[1] * x[2]
       ELSE IF IsFinite(x) THEN y = PosInf
       ELSE IF IsFinite(y) THEN x = NegInf
       ELSE x = NegInf /\ y = PosInf

FLeq(x, y) == FLess(x, y) \/ FEq(x, y)

\* mutants: rounding towards zero, and a ceiling that always moves up
FFloor_trunc(x) ==
    IF IsFinite(x)
    THEN Num(IF x[1] < 0 THEN -((-x[1]) \div x[2]) ELSE x[1] \div x[2])
    ELSE x
FCeil_plus1(x) == IF IsFinite(x) THEN Num((x[1] \div x[2]) + 1) ELSE x

\* np.floor and np.ceil
FFloor(x) == IF IsFinite(x) THEN Num(x[1] \div x[2]) ELSE x
FCeil(x)  == IF IsFinite(x) THEN Num(-((-x[1]) \div x[2])) ELSE x

\* np.sum of a one dimensional array (numpy adds the two halves pairwise)
RECURSIVE PairwiseSum(_, _, _)
PairwiseSum(x, lo, hi) ==
    IF hi < lo THEN Num(0)
    ELSE IF lo = hi THEN x[lo]
    ELSE LET mid == (lo + hi) \div 2
         IN  FAdd(PairwiseSum(x, lo, mid), PairwiseSum(x, mid + 1, hi))
np_sum(x) == PairwiseSum(x, 1, Len(x))

\* np.minimum and np.maximum of two numbers: NaN as soon as one is NaN
FMin2(a, b) ==
    IF IsNaN(a) \/ IsNaN(b) THEN NaN ELSE IF FLess(b, a) THEN b ELSE a
FMax2(a, b) ==
    IF IsNaN(a) \/ IsNaN(b) THEN NaN ELSE IF FLess(a, b) THEN b ELSE a

\* np.min and np.max of a non-empty array
RECURSIVE MinRange(_, _, _)
MinRange(x, lo, hi) ==
    IF lo = hi THEN x[lo]
    ELSE FMin2(MinRange(x, lo, (lo + hi) \div 2),
               MinRange(x, (lo + hi) \div 2 + 1, hi))
np_min(x) == MinRange(x, 1, Len(x))

RECURSIVE MaxRange(_, _, _)
MaxRange(x, lo, hi) ==
    IF lo = hi THEN x[lo]
    ELSE FMax2(MaxRange(x, lo, (lo + hi) \div 2),
               MaxRange(x, (lo + hi) \div 2 + 1, hi))
np_max(x) == MaxRange(x, 1, Len(x))

\* mutant: the missing values are kept
DropNaN_keep(x) == x

\* x[~np.isnan(x)]
IsNotNaN(v) == ~IsNaN(v)
DropNaN(x) == SelectSeq(x, IsNotNaN)

\* mutant: the division by the bin width is forgotten
ArrDiv_nodiv(x, c) == x

\* x / c and c - x for an array x and a scalar c
ArrDiv(x, c) == [i \in 1..Len(x) |-> FDiv(x[i], c)]
ArrRSub(c, x) == [i \in 1..Len(x) |-> FSub(c, x[i])]

-----------------------------------------------------------------------------
(* Binning of the weather series *)

BinWidths == <<1, 7, 30, 365>>

\* mutant: rows that start one sample early, so that windows overlap
np_reshape_overlap(x, nrow, ncol) ==
    IF Len(x) = nrow * ncol
    THEN [err |-> "none",
          val |-> [k \in 1..nrow |->
                      [j \in 1..ncol |-> x[(k - 1) * (ncol - 1) + j]]]]
    ELSE [err |-> "ValueError", val |-> <<>>]

\* ndarray.reshape(nrow, ncol): fails unless the sizes agree
np_reshape(x, nrow, ncol) ==
    IF Len(x) = nrow * ncol
    THEN [err |-> "none",
          val |-> [k \in 1..nrow |-> [j \in 1..ncol |-> x[(k - 1) * ncol + j]]]]
    ELSE [err |-> "ValueError", val |-> <<>>]

\* x[:n] of a python sequence, n >= 0
Slice(x, n) == SubSeq(x, 1, IF n < Len(x) THEN n ELSE Len(x))

\* np.sum(bheight, axis=1) of the reshaped series
sum_rows(bheight) ==
    IF bheight.err # "none" THEN bheight
    ELSE [err |-> "none",
          val |-> [k \in 1..Len(bheight.val) |-> np_sum(bheight.val[k])]]

\* x[:nbin*bwidth].reshape(nbin, bwidth)
bin_rows(x, nbin, bw) == np_reshape(Slice(x, nbin * bw), nbin, bw)

\* mutant: the number of bins is rounded up
bin_sum_roundup(x, bw) == sum_rows(bin_rows(x, (Len(x) + bw - 1) \div bw, bw))

bin_sum(x, bw) == sum_rows(bin_rows(x, Len(x) \div bw, bw))

\* np.copy(x): an array of the same values that owns its memory.  A result
\* with owner = FALSE is the array x itself.
np_copy_same(x) == [val |-> x, owner |-> FALSE]

np_copy(x) == [val |-> x, owner |-> TRUE]

\* resample_bin with a bin width of one day: the four copies
assign_copies(cT, cX, cP, cR) ==
    /\ bTIME' = cT.val
    /\ bTMAX' = cX.val
    /\ bPTOT' = cP.val
    /\ bRAIN' = cR.val
    /\ shared' = (IF cT.owner THEN {} ELSE {"bTIME"})
                 \cup (IF cX.owner THEN {} ELSE {"bTMAX"})
                 \cup (IF cP.owner THEN {} ELSE {"bPTOT"})
                 \cup (IF cR.owner THEN {} ELSE {"bRAIN"})
    /\ err' = "none"

\* the assignments of resample_bin, given the four results of bin_sum; an
\* exception leaves the remaining series as they were.  The sums and the
\* quotients are new arrays.
assign_bins(bw, rT, rX, rP, rR) ==
    /\ bTIME' = IF rT.err = "none" THEN ArrDiv(rT.val, Num(bw))
                ELSE bTIME
    /\ bTMAX' = IF rT.err = "none" /\ rX.err = "none"
                THEN ArrDiv(rX.val, Num(bw)) ELSE bTMAX
    /\ bPTOT' = IF rT.err = "none" /\ rX.err = "none"
                   /\ rP.err = "none"
                THEN rP.val ELSE bPTOT
    /\ bRAIN' = IF rT.err = "none" /\ rX.err = "none"
                   /\ rP.err = "none" /\ rR.err = "none"
                THEN rR.val ELSE bRAIN
    /\ shared' = IF rT.err # "none" THEN shared
                 ELSE IF rX.err # "none" THEN shared \ {"bTIME"}
                 ELSE IF rP.err # "none" THEN shared \ {"bTIME", "bTMAX"}
                 ELSE IF rR.err # "none"
                      THEN shared \ {"bTIME", "bTMAX", "bPTOT"}
                 ELSE {}
    /\ err' = IF rT.err # "none" THEN rT.err
              ELSE IF rX.err # "none" THEN rX.err
              ELSE IF rP.err # "none" THEN rP.err
              ELSE rR.err

resample_width(bw) ==
    /\ bwidth' = bw
    /\ op' = "resample_bin"
    /\ IF bwidth_indx = 0
       THEN assign_copies(np_copy(TIMEmeteo), np_copy(TMAX),
                          np_copy(PTOT), np_copy(RAIN))
       ELSE assign_bins(bw, bin_sum(TIMEmeteo, bw), bin_sum(TMAX, bw),
                        bin_sum(PTOT, bw), bin_sum(RAIN, bw))
    /\ UNCHANGED <<TIMEmeteo, TMAX, PTOT, RAIN, bwidth_indx>>
    /\ UNCHANGED <<wlVars, timeVars, layoutVars, tickVars, plotVars>>

resample_bin ==
    /\ pc = "idle"
    /\ resample_width(BinWidths[bwidth_indx + 1])

\* HydroPrint.layout_changed: the bin width selected in the weather combo box
set_bwidth_indx ==
    /\ pc = "idle"
    /\ \E i \in 0..3 : bwidth_indx' = i
    /\ op' = "set_bwidth_indx"
    /\ err' = "none"
    /\ UNCHANGED <<TIMEmeteo, TMAX, PTOT, RAIN, bTIME, bTMAX, bPTOT, bRAIN,
                   bwidth, shared>>
    /\ UNCHANGED <<wlVars, timeVars, layoutVars, tickVars, plotVars>>

-----------------------------------------------------------------------------
(* Best fit of the water level axis *)

\* np.arange(start, stop, step) for step > 0
np_arange(start, stop, step) ==
    LET len == FDiv(FSub(stop, start), step)
        q   == -((-len[1]) \div len[2])
        n   == IF q > 0 THEN q ELSE 0
    IN  [i \in 1..n |-> FAdd(start, FMul(Num(i - 1), step))]

\* np.hstack((np.arange(0.05, 0.30, 0.05), np.arange(0.3, 5.1, 0.1)))
SCALE ==
    np_arange(Rat(5, 100), Rat(30, 100), Rat(5, 100))
    \o np_arange(Rat(3, 10), Rat(51, 10), Rat(1, 10))

\* np.max and np.min raise ValueError on an array without elements
np_max_r(x) ==
    IF Len(x) = 0 THEN [err |-> "ValueError", val |-> NaN]
    ELSE [err |-> "none", val |-> np_max(x)]
np_min_r(x) ==
    IF Len(x) = 0 THEN [err |-> "ValueError", val |-> NaN]
    ELSE [err |-> "none", val |-> np_min(x)]

\* mutant: the last index where d equals m
np_where_last(d, m) ==
    LET hits == {i \in 1..Len(d) : FEq(d[i], m)}
    IN  IF hits = {} THEN [err |-> "IndexError", val |-> 0]
        ELSE [err |-> "none",
              val |-> (CHOOSE i \in hits : \A j \in hits : i >= j) - 1]

\* np.where(d == m)[0][0]: the first index where d equals m, 0-based, and
\* IndexError when there is none
np_where_first(d, m) ==
    LET hits == {i \in 1..Len(d) : FEq(d[i], m)}
    IN  IF hits = {} THEN [err |-> "IndexError", val |-> 0]
        ELSE [err |-> "none",
              val |-> (CHOOSE i \in hits : \A j \in hits : i <= j) - 1]

\* the values fitted: the depths, or the elevations in the masl datum
fit_values(ds, datum) ==
    DropNaN(IF datum = 1 THEN ArrRSub(ds.Elevation, ds.WL) ELSE ds.WL)

\* The result of best_fit_waterlvl.  set is 0 when the call fails before it
\* assigns WLscale, 1 when it fails between WLscale and WLmin, and 2 when it
\* returns.
fit_failed(e) == [err |-> e, set |-> 0, WLscale |-> NaN, WLmin |-> NaN]

\* WLmin = WLscale * N
fit_origin(mx, mn, datum, scale) ==
    IF datum = 0
    THEN [err |-> "none", set |-> 2, WLscale |-> scale,
          WLmin |-> FMul(scale, FCeil(FDiv(mx, scale)))]
    ELSE IF datum = 1
    THEN [err |-> "none", set |-> 2, WLscale |-> scale,
          WLmin |-> FMul(scale, FFloor(FDiv(mn, scale)))]
    ELSE [err |-> "UnboundLocalError", set |-> 1,
          WLscale |-> scale, WLmin |-> NaN]

\* WLscale = SCALE[indx]
fit_scale(mx, mn, datum, indx) ==
    IF indx.err # "none" THEN fit_failed(indx.err)
    ELSE fit_origin(mx, mn, datum, SCALE[indx.val + 1])

\* indx = np.where(dSCALE == np.min(dSCALE))[0][0]
fit_indx(mx, mn, datum, dSCALE) ==
    fit_scale(mx, mn, datum, np_where_first(dSCALE, np_min(dSCALE)))

\* dSCALE = np.abs(SCALE - dWL / ygrid)
fit_dSCALE(target) == [i \in 1..Len(SCALE) |-> FAbs(FSub(SCALE[i], target))]

\* dWL = np.max(WL) - np.min(WL) and ygrid = NZGrid - 5
fit_range(mx, mn, datum, nzgrid) ==
    IF mx.err # "none" THEN fit_failed(mx.err)
    ELSE IF mn.err # "none" THEN fit_failed(mn.err)
    ELSE fit_indx(mx.val, mn.val, datum,
                  fit_dSCALE(FDiv(FSub(mx.val, mn.val), Num(nzgrid - 5))))

fit_array(WL, datum, nzgrid) ==
    fit_range(np_max_r(WL), np_min_r(WL), datum, nzgrid)

\* Hydrograph.best_fit_waterlvl as a function of the dataset, the datum and
\* the grid divisions
fit_waterlvl(ds, datum, nzgrid) ==
    fit_array(fit_values(ds, datum), datum, nzgrid)

\* mutant: the water levels without NaN are stored back in the dataset
assign_waterlvl_stored(r) ==
    /\ WLscale' = IF r.set >= 1 THEN r.WLscale ELSE WLscale
    /\ WLmin' = IF r.set = 2 THEN r.WLmin ELSE WLmin
    /\ err' = r.err
    /\ op' = "best_fit_waterlvl"
    /\ wldset' = [wldset EXCEPT !.WL = DropNaN(wldset.WL)]
    /\ UNCHANGED <<WLdatum, NZGrid>>
    /\ UNCHANGED <<binVars, timeVars, layoutVars, tickVars, plotVars>>

\* mutant: an origin fitted by an earlier call is kept
assign_waterlvl_once(r) ==
    /\ WLscale' = IF r.set >= 1 THEN r.WLscale ELSE WLscale
    /\ WLmin' = IF r.set = 2 /\ WLmin = Num(0) THEN r.WLmin ELSE WLmin
    /\ err' = r.err
    /\ op' = "best_fit_waterlvl"
    /\ UNCHANGED <<wldset, WLdatum, NZGrid>>
    /\ UNCHANGED <<binVars, timeVars, layoutVars, tickVars, plotVars>>

assign_waterlvl(r) ==
    /\ WLscale' = IF r.set >= 1 THEN r.WLscale ELSE WLscale
    /\ WLmin' = IF r.set = 2 THEN r.WLmin ELSE WLmin
    /\ err' = r.err
    /\ op' = "best_fit_waterlvl"
    /\ UNCHANGED <<wldset, WLdatum, NZGrid>>
    /\ UNCHANGED <<binVars, timeVars, layoutVars, tickVars, plotVars>>

best_fit_waterlvl ==
    /\ pc = "idle"
    /\ assign_waterlvl(fit_waterlvl(wldset, WLdatum, NZGrid))

\* HydroPrint.layout_changed: the value of the grid division spin box (1..50)
NZGridValues == {4, 5, 6, 8}

set_NZGrid ==
    /\ pc = "idle"
    /\ \E n \in NZGridValues : NZGrid' = n
    /\ op' = "set_NZGrid"
    /\ err' = "none"
    /\ UNCHANGED <<wldset, WLdatum, WLscale, WLmin>>
    /\ UNCHANGED <<binVars, timeVars, layoutVars, tickVars, plotVars>>

\* HydroPrint.layout_changed: the index of the datum combo box
set_WLdatum ==
    /\ pc = "idle"
    /\ \E d \in {0, 1} : WLdatum' = d
    /\ op' = "set_WLdatum"
    /\ err' = "none"
    /\ UNCHANGED <<wldset, NZGrid, WLscale, WLmin>>
    /\ UNCHANGED <<binVars, timeVars, layoutVars, tickVars, plotVars>>

-----------------------------------------------------------------------------
(* Best fit of the time axis *)

\* int(round(x)) for x >= 0, halves going to the even integer
py_round_floor(x, lower) ==
    IF FLess(FSub(x, Num(lower)), Rat(1, 2)) THEN lower
    ELSE IF FLess(Rat(1, 2), FSub(x, Num(lower))) THEN lower + 1
    ELSE IF lower % 2 = 0 THEN lower ELSE lower + 1
py_round(x) == py_round_floor(x, x[1] \div x[2])

\* xlrd.xldate_as_tuple: the year, month and day of a Julian day number
xl_date_of_mp(yreg, mp) ==
    IF mp \div 16384 >= 10
    THEN <<(yreg \div 1461) - 4715, (mp \div 16384) - 9,
           ((mp % 16384) \div 535) + 1>>
    ELSE <<(yreg \div 1461) - 4716, (mp \div 16384) + 3,
           ((mp % 16384) \div 535) + 1>>
xl_date_of_yreg(yreg) ==
    xl_date_of_mp(yreg, ((yreg % 1461) \div 4) * 535 + 333)
xl_date_of_jdn(jdn) ==
    xl_date_of_yreg((((((jdn * 4 + 274277) \div 146097) * 3) \div 4)
                     + jdn + 1363) * 4 + 3)

xl_failed(e) == [err |-> e, val |-> <<0, 0, 0>>]

\* xlrd.xldate_as_tuple, from the whole days on
xl_date_of_days(xldays) ==
    IF xldays >= 2958466 THEN xl_failed("XLDateTooLarge")
    ELSE IF xldays = 0 THEN [err |-> "none", val |-> <<0, 0, 0>>]
    ELSE IF xldays < 61 THEN xl_failed("XLDateAmbiguous")
    ELSE [err |-> "none", val |-> xl_date_of_jdn(xldays + (2415080 - 61))]

\* xldays = int(xldate), and one more when the seconds round to a full day
xl_days(xldate, int) ==
    IF py_round(FMul(FSub(xldate, Num(int)), Num(86400))) = 86400
    THEN int + 1 ELSE int

\* xlrd.xldate_as_tuple(xldate, 0), the date part of the result
xldate_as_tuple(xldate) ==
    IF IsNaN(xldate) \/ ~IsFinite(xldate) THEN xl_failed("ValueError")
    ELSE IF xldate = Num(0) THEN [err |-> "none", val |-> <<0, 0, 0>>]
    ELSE IF FLess(xldate, Num(0)) THEN xl_failed("XLDateNegative")
    ELSE xl_date_of_days(xl_days(xldate, xldate[1] \div xldate[2]))

IsLeap(y) == (y % 4 = 0 /\ y % 100 # 0) \/ y % 400 = 0
DaysInMonth(y, m) ==
    IF m = 2 THEN (IF IsLeap(y) THEN 29 ELSE 28)
    ELSE IF m \in {4, 6, 9, 11} THEN 30 ELSE 31

\* xlrd.xldate.xldate_from_date_tuple: the day number of a valid date
xl_days_of_jdn(xldays) ==
    IF xldays <= 0 THEN [err |-> "XLDateBadTuple", val |-> NaN]
    ELSE IF xldays < 61 THEN [err |-> "XLDateAmbiguous", val |-> NaN]
    ELSE [err |-> "none", val |-> Num(xldays)]
xl_days_of_date(Yp, Mp, day) ==
    xl_days_of_jdn(((1461 * Yp) \div 4) + ((979 * Mp + 16) \div 32) + day
                   - 1364 - ((((Yp + 184) \div 100) * 3) \div 4)
                   - (2415080 - 61))

\* xlrd.xldate.xldate_from_date_tuple((year, month, day), 0)
xldate_from_ymd(year, month, day) ==
    IF year = 0 /\ month = 0 /\ day = 0 THEN [err |-> "none", val |-> Num(0)]
    ELSE IF ~(1900 <= year /\ year <= 9999)
         THEN [err |-> "XLDateBadTuple", val |-> NaN]
    ELSE IF ~(1 <= month /\ month <= 12)
         THEN [err |-> "XLDateBadTuple", val |-> NaN]
    ELSE IF day < 1 \/ day > DaysInMonth(year, month)
         THEN [err |-> "XLDateBadTuple", val |-> NaN]
    ELSE IF month <= 2 THEN xl_days_of_date(year + 4716 - 1, month + 9, day)
    ELSE xl_days_of_date(year + 4716, month - 3, day)
xldate_from_date_tuple(date) == xldate_from_ymd(date[1], date[2], date[3])

\* mutants: no new year after December, and no step to the next month
next_month_norollover(year, month) == <<year, month + 1>>
next_month_stay(year, month) == <<year, month>>

\* the month after (year, month), as the year and the month of date1
next_month(year, month) ==
    IF month + 1 > 12 THEN <<year + 1, 1>> ELSE <<year, month + 1>>

\* The result of best_fit_time.  set is the number of the attributes TIMEmin,
\* TIMEmax assigned before the call returned or failed.
time_failed(e, n, tmin) ==
    [err |-> e, set |-> n, TIMEmin |-> tmin, TIMEmax |-> NaN,
     date0 |-> <<0, 0, 0>>, date1 |-> <<0, 0, 0>>]

\* self.TIMEmax = xldate_from_date_tuple(date1, 0); return date0, date1
fit_time_max(d0, tmin, d1, tmax) ==
    IF tmax.err # "none" THEN time_failed(tmax.err, 1, tmin)
    ELSE [err |-> "none", set |-> 2, TIMEmin |-> tmin, TIMEmax |-> tmax.val,
          date0 |-> d0, date1 |-> d1]

\* date1 = (year, month, 1)
fit_time_date1(d0, tmin, d1) ==
    fit_time_max(d0, tmin, d1, xldate_from_date_tuple(d1))

\* date1 = xldate_as_tuple(TIME[-1], 0) and the month after it
fit_time_end(d0, tmin, t1) ==
    IF t1.err # "none" THEN time_failed(t1.err, 1, tmin)
    ELSE fit_time_date1(d0, tmin, Append(next_month(t1.val[1], t1.val[2]), 1))

\* self.TIMEmin = xldate_from_date_tuple(date0, 0)
fit_time_min(TIME, d0, tmin) ==
    IF tmin.err # "none" THEN time_failed(tmin.err, 0, NaN)
    ELSE fit_time_end(d0, tmin.val, xldate_as_tuple(TIME[Len(TIME)]))

\* date0 = (date0[0], date0[1], 1)
fit_time_date0(TIME, d0) == fit_time_min(TIME, d0, xldate_from_date_tuple(d0))

\* date0 = xldate_as_tuple(TIME[0], 0)
fit_time_start(TIME, t0) ==
    IF t0.err # "none" THEN time_failed(t0.err, 0, NaN)
    ELSE fit_time_date0(TIME, <<t0.val[1], t0.val[2], 1>>)

\* Hydrograph.best_fit_time as a function of TIME
fit_time(TIME) ==
    IF Len(TIME) = 0 THEN time_failed("IndexError", 0, NaN)
    ELSE fit_time_start(TIME, xldate_as_tuple(TIME[1]))

assign_time(r) ==
    /\ TIMEmin' = IF r.set >= 1 THEN r.TIMEmin ELSE TIMEmin
    /\ TIMEmax' = IF r.set = 2 THEN r.TIMEmax ELSE TIMEmax
    /\ date0' = IF r.err = "none" THEN r.date0 ELSE date0
    /\ date1' = IF r.err = "none" THEN r.date1 ELSE date1
    /\ err' = r.err
    /\ op' = "best_fit_time"
    /\ UNCHANGED xldates
    /\ UNCHANGED <<binVars, wlVars, layoutVars, tickVars, plotVars>>

\* best_fit_time(wldset.xldates); date0 and date1 hold the value returned
best_fit_time ==
    /\ pc = "idle"
    /\ assign_time(fit_time(xldates))

-----------------------------------------------------------------------------
(* Margins and positions of the axes *)

\* the property meteo_on: weather is plotted when asked for and available
meteo_on == __meteo_on /\ wxdset # "None"

\* left_margin = 0.85 / self.fwidth
left_margin_of(fw) == FDiv(Rat(17, 20), fw)

\* mutant: the right margin does not depend on the weather panel
right_margin_wide(fw, meteo) == FDiv(Rat(17, 20), fw)

right_margin_of(fw, meteo) ==
    IF meteo = FALSE THEN FDiv(Rat(3, 20), fw) ELSE FDiv(Rat(17, 20), fw)

\* bottom_margin = 0.6 / self.fheight
bottom_margin_of(fh) == FDiv(Rat(3, 5), fh)

top_margin_of(fh, meteo, title, legend) ==
    IF title = 1 \/ legend = 1
    THEN IF meteo = FALSE
         THEN FAdd(FDiv(Rat(1, 4), fh), FDiv(Rat(1, 5), fh))
         ELSE FAdd(FDiv(Rat(1, 4), fh), FDiv(Rat(9, 20), fh))
    ELSE FDiv(Rat(1, 4), fh)

\* mutant: the configured ratio is used whether weather is plotted or not
va_ratio_always(meteo, va) == va

va_ratio_of(meteo, va) == IF meteo THEN va ELSE Num(0)

\* mutant: the upper part is given to the precipitation axes
axe_position_precip(i, left, bottom, wtot, htot, htop, hlow) ==
    IF i = 3 THEN <<left, FAdd(bottom, hlow), wtot, htop>>
    ELSE IF i \in {0, 1} THEN <<left, bottom, wtot, htot>>
    ELSE <<left, bottom, wtot, hlow>>

\* the position [left, bottom, width, height] of axes number i of self.axes:
\* 0 time, 1 frame, 2 water levels, 3 precipitation, 4 air temperature,
\* 5 grid of the bottom part
axe_position(i, left, bottom, wtot, htot, htop, hlow) ==
    IF i = 4 THEN <<left, FAdd(bottom, hlow), wtot, htop>>
    ELSE IF i \in {0, 1} THEN <<left, bottom, wtot, htot>>
    ELSE <<left, bottom, wtot, hlow>>

axes_positions(n, left, bottom, wtot, htot, htop, hlow) ==
    [k \in 1..n |-> axe_position(k - 1, left, bottom, wtot, htot, htop, hlow)]

\* htop = htot * va_ratio and hlow = htot * (1 - va_ratio)
split_heights(n, left, bottom, wtot, htot, r) ==
    axes_positions(n, left, bottom, wtot, htot,
                   FMul(htot, r), FMul(htot, FSub(Num(1), r)))

\* htot = 1 - (bottom_margin + top_margin), wtot = 1 - (left + right)
margins_positions(n, left, right, bottom, top, r) ==
    split_heights(n, left, bottom, FSub(Num(1), FAdd(left, right)),
                  FSub(Num(1), FAdd(bottom, top)), r)

\* the positions set_margins gives to n axes
set_margins_positions(n, fw, fh, meteo, title, legend, va) ==
    margins_positions(n, left_margin_of(fw), right_margin_of(fw, meteo),
                      bottom_margin_of(fh),
                      top_margin_of(fh, meteo, title, legend),
                      va_ratio_of(meteo, va))

\* Hydrograph.set_margins; a figure width or height of zero raises in the
\* first divisions, before any position is set
set_margins ==
    /\ pc = "idle"
    /\ op' = "set_margins"
    /\ IF fwidth = Num(0) \/ fheight = Num(0)
       THEN /\ err' = "ZeroDivisionError"
            /\ axes' = axes
       ELSE /\ err' = "none"
            /\ axes' = set_margins_positions(Len(axes), fwidth, fheight,
                                             meteo_on, isGraphTitle,
                                             isLegend, va_ratio)
    /\ UNCHANGED <<fwidth, fheight, va_ratio, __meteo_on, wxdset,
                   isGraphTitle, isLegend>>
    /\ UNCHANGED <<binVars, wlVars, timeVars, tickVars, plotVars>>

\* sizes of the figure in inches, and ratios of the top part
FigWidths == {Num(0), Num(1), Num(11)}
FigHeights == {Num(1), Rat(17, 2)}
VaRatios == {Rat(1, 5), Rat(1, 2)}

\* hydrograph.fwidth = ..; hydrograph.fheight = ..
set_figure_size ==
    /\ pc = "idle"
    /\ \E fw \in FigWidths, fh \in FigHeights :
          fwidth' = fw /\ fheight' = fh
    /\ op' = "set_figure_size"
    /\ err' = "none"
    /\ UNCHANGED <<va_ratio, __meteo_on, wxdset, isGraphTitle, isLegend, axes>>
    /\ UNCHANGED <<binVars, wlVars, timeVars, tickVars, plotVars>>

\* hydrograph.va_ratio = ..
set_va_ratio ==
    /\ pc = "idle"
    /\ \E va \in VaRatios : va_ratio' = va
    /\ op' = "set_va_ratio"
    /\ err' = "none"
    /\ UNCHANGED <<fwidth, fheight, __meteo_on, wxdset, isGraphTitle,
                   isLegend, axes>>
    /\ UNCHANGED <<binVars, wlVars, timeVars, tickVars, plotVars>>

\* hydrograph.isGraphTitle = ..; hydrograph.isLegend = ..
set_title_legend ==
    /\ pc = "idle"
    /\ \E t \in {0, 1}, l \in {0, 1} : isGraphTitle' = t /\ isLegend' = l
    /\ op' = "set_title_legend"
    /\ err' = "none"
    /\ UNCHANGED <<fwidth, fheight, va_ratio, __meteo_on, wxdset, axes>>
    /\ UNCHANGED <<binVars, wlVars, timeVars, tickVars, plotVars>>

\* the setter of the property meteo_on
meteo_on_setter ==
    /\ pc = "idle"
    /\ \E x \in BOOLEAN : __meteo_on' = x
    /\ op' = "meteo_on_setter"
    /\ err' = "none"
    /\ UNCHANGED <<fwidth, fheight, va_ratio, wxdset, isGraphTitle, isLegend,
                   axes>>
    /\ UNCHANGED <<binVars, wlVars, timeVars, tickVars, plotVars>>

\* Hydrograph.set_wxdset, with a weather dataset or None
set_wxdset ==
    /\ pc = "idle"
    /\ \E x \in {"None", "wxdset"} : wxdset' = x
    /\ op' = "set_wxdset"
    /\ err' = "none"
    /\ UNCHANGED <<fwidth, fheight, va_ratio, __meteo_on, isGraphTitle,
                   isLegend, axes>>
    /\ UNCHANGED <<binVars, wlVars, timeVars, tickVars, plotVars>>

-----------------------------------------------------------------------------
(* Ticks and labels of the time axis *)

\* str.lower() on the strings the program handles
str_lower(x) ==
    CASE x = "Month" -> "month"
      [] x = "Year" -> "year"
      [] x = "English" -> "english"
      [] x = "French" -> "french"
      [] x = "Spanish" -> "spanish"
      [] OTHER -> x

\* LabelDatabase(language).month_names
month_names_en ==
    <<"JAN", "FEB", "MAR", "APR", "MAY", "JUN",
      "JUL", "AUG", "SEP", "OCT", "NOV", "DEC">>
month_names_fr ==
    <<"JAN", "FÉV", "MAR", "AVR", "MAI", "JUN",
      "JUL", "AOÛ", "SEP", "OCT", "NOV", "DÉC">>
month_names(lang) ==
    IF str_lower(lang) = "french" THEN month_names_fr ELSE month_names_en

\* a % b of Python for b # 0: the result has the sign of b
py_mod(a, b) == IF b > 0 THEN a % b ELSE -((-a) % (-b))

\* x[-2:] of a string
str_last2(x) == IF Len(x) <= 2 THEN x ELSE SubSeq(x, Len(x) - 1, Len(x))

\* mutant: the table of month names is indexed with the month itself
tick_labels_next_month(mode, names, year, month) ==
    IF mode = "month"
    THEN <<names[(month % 12) + 1] \o " '" \o str_last2(ToString(year))>>
    ELSE IF mode = "year" THEN <<ToString(year)>>
    ELSE <<>>

\* the labels appended for a major tick: one label, or none when datemode
\* is neither month nor year
tick_labels(mode, names, year, month) ==
    IF mode = "month"
    THEN <<names[month] \o " '" \o str_last2(ToString(year))>>
    ELSE IF mode = "year" THEN <<ToString(year)>>
    ELSE <<>>

\* mutant: February has 28 days in every year
monthrange_noleap(year, month) ==
    IF month \notin 1..12 THEN [err |-> "IllegalMonthError", val |-> 0]
    ELSE [err |-> "none",
          val |-> IF month = 2 THEN 28 ELSE DaysInMonth(year, month)]

\* calendar.monthrange(year, month)[1]
monthrange(year, month) ==
    IF month \notin 1..12 THEN [err |-> "IllegalMonthError", val |-> 0]
    ELSE [err |-> "none", val |-> DaysInMonth(year, month)]

\* mutant: the year mode steps by 365 days
next_tick_365(mode, pos, year, mr) ==
    IF mode = "month" THEN [err |-> "none", val |-> FAdd(pos, Num(mr))]
    ELSE IF mode = "year" THEN [err |-> "none", val |-> FAdd(pos, Num(365))]
    ELSE [err |-> "none", val |-> pos]

\* the position of the next tick
next_tick(mode, pos, year, mr) ==
    IF mode = "month" THEN [err |-> "none", val |-> FAdd(pos, Num(mr))]
    ELSE IF mode = "year" THEN xldate_from_date_tuple(<<year + 1, 1, 1>>)
    ELSE [err |-> "none", val |-> pos]

\* measures of the renderer: sdx for a time axis of one day
TextExtents == {Rat(1, 100), Rat(1, 40)}

noTickLocals ==
    /\ next_xtick_pos' = NaN
    /\ xtick_i' = 0
    /\ xticks_labels_offset' = NaN
    /\ xticks_position' = <<>>
    /\ xticks_labels_position' = <<>>
    /\ xticks_labels' = <<>>
    /\ xticks_minor_position' = <<>>

\* the locals of make_xticks_info before the loop, for an axis from tmin to
\* tmax
xticks_enter(tmin, tmax) ==
    /\ pc' = "xticks"
    /\ \E k \in TextExtents :
          xticks_labels_offset' = FMul(k, FAdd(FSub(tmax, tmin), Num(1)))
    /\ xticks_labels' = <<>>
    /\ xticks_position' = <<>>
    /\ xticks_labels_position' = <<>>
    /\ xticks_minor_position' = <<>>
    /\ xtick_i' = 0
    /\ next_xtick_pos' = tmin

\* make_xticks_info up to the loop
make_xticks_info_begin ==
    /\ pc = "idle"
    /\ xticks_enter(TIMEmin, TIMEmax)
    /\ xticks_info' = <<>>
    /\ op' = "make_xticks_info"
    /\ err' = "none"
    /\ UNCHANGED <<binVars, wlVars, timeVars, layoutVars, tickConfig, plotVars>>

\* an exception leaves make_xticks_info, and the methods that called it,
\* without a result
xticks_raise(e) ==
    /\ pc' = "idle"
    /\ stack' = <<>>
    /\ err' = e
    /\ noTickLocals
    /\ UNCHANGED xticks_info

\* the four lists are returned: to the caller of the figure, or to the method
\* of the figure that called make_xticks_info, which goes on
xticks_return(info) ==
    /\ pc' = IF stack = <<>> THEN "idle" ELSE Head(stack)
    /\ stack' = IF stack = <<>> THEN <<>> ELSE Tail(stack)
    /\ xticks_info' = IF stack = <<>> THEN info ELSE xticks_info
    /\ err' = "none"
    /\ noTickLocals

\* mutant: the loop goes on up to a month after TIMEmax
xticks_next_late(nxt, major, labpos, labels, minor) ==
    IF FLess(FAdd(TIMEmax, Num(31)), nxt)
    THEN xticks_return(<<major, labpos, labels, minor>>)
    ELSE /\ pc' = "xticks"
         /\ xticks_position' = major
         /\ xticks_labels_position' = labpos
         /\ xticks_labels' = labels
         /\ xticks_minor_position' = minor
         /\ xtick_i' = xtick_i + 1
         /\ next_xtick_pos' = nxt
         /\ UNCHANGED <<xticks_labels_offset, xticks_info, err, stack>>

\* the end of an iteration: return the four lists or go on with the next tick
xticks_next(nxt, major, labpos, labels, minor) ==
    IF FLess(TIMEmax, nxt)
    THEN xticks_return(<<major, labpos, labels, minor>>)
    ELSE /\ pc' = "xticks"
         /\ xticks_position' = major
         /\ xticks_labels_position' = labpos
         /\ xticks_labels' = labels
         /\ xticks_minor_position' = minor
         /\ xtick_i' = xtick_i + 1
         /\ next_xtick_pos' = nxt
         /\ UNCHANGED <<xticks_labels_offset, xticks_info, err, stack>>

\* mutant: every tick is a major tick
xticks_append_all(year, month, nxt, major) ==
    IF nxt.err # "none" THEN xticks_raise(nxt.err)
    ELSE xticks_next(nxt.val,
             Append(xticks_position, next_xtick_pos),
             Append(xticks_labels_position,
                    FAdd(next_xtick_pos, xticks_labels_offset)),
             xticks_labels \o tick_labels(str_lower(datemode),
                                          month_names(language), year, month),
             Append(xticks_minor_position, next_xtick_pos))

\* the appends of an iteration
xticks_append(year, month, nxt, major) ==
    IF nxt.err # "none" THEN xticks_raise(nxt.err)
    ELSE IF major
    THEN xticks_next(nxt.val,
             Append(xticks_position, next_xtick_pos),
             Append(xticks_labels_position,
                    FAdd(next_xtick_pos, xticks_labels_offset)),
             xticks_labels \o tick_labels(str_lower(datemode),
                                          month_names(language), year, month),
             Append(xticks_minor_position, next_xtick_pos))
    ELSE xticks_next(nxt.val, xticks_position, xticks_labels_position,
                     xticks_labels,
                     Append(xticks_minor_position, next_xtick_pos))

\* month_range = monthrange(year, month)[1] and i % date_labels_pattern
xticks_month(year, month, mr) ==
    IF mr.err # "none" THEN xticks_raise(mr.err)
    ELSE IF date_labels_pattern = 0 THEN xticks_raise("ZeroDivisionError")
    ELSE xticks_append(year, month,
                       next_tick(str_lower(datemode), next_xtick_pos, year,
                                 mr.val),
                       py_mod(xtick_i, date_labels_pattern) = 0)

\* datetuple = xldate_as_tuple(next_xtick_pos, 0)
xticks_date(t) ==
    IF t.err # "none" THEN xticks_raise(t.err)
    ELSE xticks_month(t.val[1], t.val[2], monthrange(t.val[1], t.val[2]))

\* one iteration of the loop of make_xticks_info
make_xticks_info_step ==
    /\ pc = "xticks"
    /\ xticks_date(xldate_as_tuple(next_xtick_pos))
    /\ UNCHANGED <<op, figVars, axisVars, weatherVars>>
    /\ UNCHANGED <<binVars, wlVars, timeVars, layoutVars, tickConfig>>

\* values of the time scale, of the stride of the labels and of the language
DateModes == {"Month", "Year", "year"}
Strides == {-2, 0, 1, 2, 3}
Languages == {"english", "English", "French", "Spanish"}

\* hydrograph.datemode = ..
set_datemode ==
    /\ pc = "idle"
    /\ \E x \in DateModes : datemode' = x
    /\ op' = "set_datemode"
    /\ err' = "none"
    /\ UNCHANGED <<date_labels_pattern, language, pc, tickLocals, xticks_info>>
    /\ UNCHANGED <<binVars, wlVars, timeVars, layoutVars, plotVars>>

\* hydrograph.date_labels_pattern = ..
set_date_labels_pattern ==
    /\ pc = "idle"
    /\ \E x \in Strides : date_labels_pattern' = x
    /\ op' = "set_date_labels_pattern"
    /\ err' = "none"
    /\ UNCHANGED <<datemode, language, pc, tickLocals, xticks_info>>
    /\ UNCHANGED <<binVars, wlVars, timeVars, layoutVars, plotVars>>

\* the setter of the property language
set_language ==
    /\ pc = "idle"
    /\ \E x \in Languages :
          language' = IF str_lower(x) \in {"english", "french"} THEN x
                      ELSE "english"
    /\ op' = "set_language"
    /\ err' = "none"
    /\ UNCHANGED <<datemode, date_labels_pattern, pc, tickLocals, xticks_info>>
    /\ UNCHANGED <<binVars, wlVars, timeVars, layoutVars, plotVars>>

-----------------------------------------------------------------------------
(* Scale of the water level axis *)

\* mutant: the grid divisions of the constructor, weather plotted or not
waterlvl_divisions_all(meteo, nzgrid) == nzgrid

\* NZGrid = self.NZGrid if self.meteo_on else self.NZGrid - 2
waterlvl_divisions(meteo, nzgrid) == IF meteo THEN nzgrid ELSE nzgrid - 2

\* mutant: the axis starts at WLmin and goes upwards in both datums
ax2_limits_up(datum, wlmin, scale, n) ==
    <<wlmin, FAdd(wlmin, FMul(Num(n), scale))>>

\* the limits <<ymin, ymax>> of ax2 for n grid divisions: from WLmin upwards
\* in the masl datum, from WLmin downwards in the mbgs datum
ax2_limits(datum, wlmin, scale, n) ==
    IF datum = 1 THEN <<wlmin, FAdd(wlmin, FMul(Num(n), scale))>>
    ELSE <<FSub(wlmin, FMul(Num(n), scale)), wlmin>>

\* the ticks of ax2: the two upper rows carry no tick when weather is plotted
ax2_ticks(meteo, datum, lim, scale) ==
    IF datum = 1
    THEN np_arange(lim[1],
                   IF meteo THEN FSub(lim[2], FMul(Rat(19, 10), scale))
                   ELSE FAdd(lim[2], FMul(Rat(1, 10), scale)),
                   scale)
    ELSE np_arange(lim[2],
                   IF meteo THEN FAdd(lim[1], FMul(Rat(19, 10), scale))
                   ELSE FSub(lim[1], FMul(Rat(1, 10), scale)),
                   FNeg(scale))

\* np.arange raises when the step is the constructor's WLscale = 0
waterlvl_scale_err == IF WLscale = Num(0) THEN "ZeroDivisionError" ELSE "none"

\* self.ax2.set_yticks(..); self.ax2.axis(ymin=WLmin, ymax=WLmax)
waterlvl_scale_ax2(meteo, lim) ==
    IF waterlvl_scale_err # "none"
    THEN UNCHANGED <<ax2_ymin, ax2_ymax, ax2_yticks>>
    ELSE /\ ax2_ymin' = lim[1]
         /\ ax2_ymax' = lim[2]
         /\ ax2_yticks' = ax2_ticks(meteo, WLdatum, lim, WLscale)

\* the body of setup_waterlvl_scale for a figure that has its axes
waterlvl_scale(meteo, n) ==
    /\ axLow_ymax' = Num(n)
    /\ waterlvl_scale_ax2(meteo, ax2_limits(WLdatum, WLmin, WLscale, n))

\* Hydrograph.setup_waterlvl_scale
setup_waterlvl_scale ==
    /\ pc = "idle"
    /\ op' = "setup_waterlvl_scale"
    /\ IF "axes" \notin created
       THEN /\ err' = "AttributeError"
            /\ UNCHANGED <<axLow_ymax, ax2_ymin, ax2_ymax, ax2_yticks>>
       ELSE /\ err' = waterlvl_scale_err
            /\ waterlvl_scale(meteo_on, waterlvl_divisions(meteo_on, NZGrid))
    /\ UNCHANGED <<ax1_xlim, figVars, weatherVars, stack>>
    /\ UNCHANGED <<binVars, wlVars, timeVars, layoutVars, tickVars>>

-----------------------------------------------------------------------------
(* Time scale of the x-axis *)

\* The limits set_time_scale computes.  A failing conversion leaves the limits
\* assigned before it: tmin is TIMEmin as it is when the call raises.
time_scale_failed(e, tmin) ==
    [err |-> e, TIMEmin |-> tmin, TIMEmax |-> TIMEmax]

\* self.TIMEmax = xldate_from_date_tuple((year, 1, 1), 0)
time_scale_max(tmin, t1) ==
    IF t1.err # "none" THEN time_scale_failed(t1.err, tmin)
    ELSE [err |-> "none", TIMEmin |-> tmin, TIMEmax |-> t1.val]

\* mutant: TIMEmax moves to the next year even from a first of January
time_scale_last_always(tmin, d1) ==
    IF d1.err # "none" THEN time_scale_failed(d1.err, tmin)
    ELSE time_scale_max(tmin, xldate_from_date_tuple(<<d1.val[1] + 1, 1, 1>>))

\* last_month and last_day: TIMEmax stays when it is a first of January
time_scale_last(tmin, d1) ==
    IF d1.err # "none" THEN time_scale_failed(d1.err, tmin)
    ELSE IF d1.val[2] = 1 /\ d1.val[3] = 1
    THEN [err |-> "none", TIMEmin |-> tmin, TIMEmax |-> TIMEmax]
    ELSE time_scale_max(tmin, xldate_from_date_tuple(<<d1.val[1] + 1, 1, 1>>))

\* self.TIMEmin = xldate_from_date_tuple((year, 1, 1), 0)
time_scale_min(t0) ==
    IF t0.err # "none" THEN time_scale_failed(t0.err, TIMEmin)
    ELSE time_scale_last(t0.val, xldate_as_tuple(TIMEmax))

\* year = xldate_as_tuple(self.TIMEmin, 0)[0]
time_scale_year(d0) ==
    IF d0.err # "none" THEN time_scale_failed(d0.err, TIMEmin)
    ELSE time_scale_min(xldate_from_date_tuple(<<d0.val[1], 1, 1>>))

\* if self.datemode.lower() == 'year': ..
time_scale_limits ==
    IF str_lower(datemode) = "year"
    THEN time_scale_year(xldate_as_tuple(TIMEmin))
    ELSE [err |-> "none", TIMEmin |-> TIMEmin, TIMEmax |-> TIMEmax]

\* set_time_scale up to the loop of make_xticks_info, which setup_xticklabels
\* calls first, for a figure with the attributes attrs; rest holds the
\* methods to return to after set_time_scale
time_scale_call(r, attrs, rest) ==
    /\ TIMEmin' = r.TIMEmin
    /\ TIMEmax' = r.TIMEmax
    /\ IF r.err # "none" \/ "axes" \notin attrs
       THEN /\ err' = IF r.err # "none" THEN r.err ELSE "AttributeError"
            /\ pc' = "idle"
            /\ stack' = <<>>
            /\ UNCHANGED tickLocals
       ELSE /\ err' = "none"
            /\ xticks_enter(r.TIMEmin, r.TIMEmax)
            /\ stack' = <<"set_time_scale">> \o rest

\* Hydrograph.set_time_scale, up to the loop of the ticks
set_time_scale_begin ==
    /\ pc = "idle"
    /\ op' = "set_time_scale"
    /\ time_scale_call(time_scale_limits, created, <<>>)
    /\ UNCHANGED <<xldates, date0, date1, tickConfig, xticks_info>>
    /\ UNCHANGED <<figVars, axisVars, weatherVars>>
    /\ UNCHANGED <<binVars, wlVars, layoutVars>>

\* the method the running one returns to, and the methods after that one
return_pc == IF stack = <<>> THEN "idle" ELSE Head(stack)
return_stack == IF stack = <<>> THEN <<>> ELSE Tail(stack)

\* the end of setup_xticklabels, which replaces the labels in self.xlabels,
\* and self.ax1.axis([self.TIMEmin, self.TIMEmax, 0, self.NZGrid])
time_scale_axis ==
    IF "texts" \notin created
    THEN /\ err' = "AttributeError"
         /\ pc' = "idle"
         /\ stack' = <<>>
         /\ UNCHANGED ax1_xlim
    ELSE /\ err' = "none"
         /\ pc' = return_pc
         /\ stack' = return_stack
         /\ ax1_xlim' = <<TIMEmin, TIMEmax>>

\* Hydrograph.set_time_scale, after the loop of the ticks
set_time_scale_end ==
    /\ pc = "set_time_scale"
    /\ time_scale_axis
    /\ UNCHANGED <<op, tickConfig, tickLocals, xticks_info>>
    /\ UNCHANGED <<axLow_ymax, ax2_ymin, ax2_ymax, ax2_yticks>>
    /\ UNCHANGED <<figVars, weatherVars>>
    /\ UNCHANGED <<binVars, wlVars, timeVars, layoutVars>>

\* limits of the time axis a caller assigns: HydroPrint assigns the first day
\* of the months of its two date fields, in any order, and TIMEmin and TIMEmax
\* are plain attributes
TimeLimits ==
    { <<Num(36526), Num(36526)>>, <<Num(36540), Num(36891)>>,
      <<Rat(73081, 2), Num(37257)>>, <<Num(36860), Num(37226)>>,
      <<Num(36891), Rat(73785, 2)>>, <<Num(37257), Num(36526)>>,
      <<Num(2958101), Num(2958465)>>, <<Num(0), Num(36526)>> }

\* hydrograph.TIMEmin = ..; hydrograph.TIMEmax = ..
set_time_limits ==
    /\ pc = "idle"
    /\ \E lim \in TimeLimits : TIMEmin' = lim[1] /\ TIMEmax' = lim[2]
    /\ op' = "set_time_limits"
    /\ err' = "none"
    /\ UNCHANGED <<xldates, date0, date1>>
    /\ UNCHANGED <<binVars, wlVars, layoutVars, tickVars, plotVars>>

-----------------------------------------------------------------------------
(* The weather dataset handed over by generate_hydrograph *)

\* 2000-01-01 as an Excel day number, the constructor's TIMEmin and TIMEmax
TIME0 == 36526

\* lengths of the daily series: every short length, and around each multiple
\* of the three bin widths
Lengths ==
    (0 .. (7 * MaxBins + 6))
    \cup { k * 30 + r : k \in 1..MaxBins, r \in {-1, 0, 1} }
    \cup { k * 365 + r : k \in 1..MaxBins, r \in {-1, 0, 1} }

\* daily time stamps of the weather record (datetimeindex_to_xldates)
wx_time(L) == [i \in 1..L |-> Num(TIME0 + i - 1)]
\* daily maximum temperature, in half degrees around zero
wx_tmax(p, L) == [i \in 1..L |-> Rat(((7 * i + 3 * p) % 61) - 25, 2)]
\* daily precipitation, in half millimetres; dataset 2 has missing days
wx_ptot(p, L) ==
    [i \in 1..L |-> IF p = 2 /\ i % 13 = 5 THEN NaN
                    ELSE Rat((i * (p + 1)) % 9, 2)]
\* rain is the precipitation of the days above the freezing point
wx_rain(p, L) ==
    LET tmax == wx_tmax(p, L)
        ptot == wx_ptot(p, L)
    IN  [i \in 1..L |-> IF FLess(Num(0), tmax[i]) THEN ptot[i] ELSE Num(0)]

\* Hydrograph.__init__
InitBinState ==
    /\ bTIME = <<>> /\ bTMAX = <<>> /\ bPTOT = <<>> /\ bRAIN = <<>>
    /\ shared = {}
    /\ bwidth_indx = 1
    /\ bwidth = 0
InitWLState ==
    /\ WLdatum = 0
    /\ NZGrid = 8
    /\ WLscale = Num(0)
    /\ WLmin = Num(0)
InitTimeState ==
    /\ TIMEmin = Num(TIME0)
    /\ TIMEmax = Num(TIME0)
    /\ date0 = <<0, 0, 0>>
    /\ date1 = <<0, 0, 0>>

InitLayoutState ==
    /\ fwidth = Num(11)
    /\ fheight = Num(7)
    /\ va_ratio = Rat(1, 5)
    /\ __meteo_on = TRUE
    /\ isGraphTitle = 1
    /\ isLegend = 1
    /\ axes = <<>>
InitTickState ==
    /\ datemode = "Month"
    /\ date_labels_pattern = 2
    /\ language = "english"
    /\ pc = "idle"
    /\ next_xtick_pos = NaN
    /\ xtick_i = 0
    /\ xticks_labels_offset = NaN
    /\ xticks_position = <<>>
    /\ xticks_labels_position = <<>>
    /\ xticks_labels = <<>>
    /\ xticks_minor_position = <<>>
    /\ xticks_info = <<>>
\* the plotted bars of precipitation: no attribute yet, the empty line of
\* ax3.plot([], []) or the polygons of fill_between, given by their heights
NoArtist == [kind |-> "none", paths |-> <<>>]
Line2D == [kind |-> "Line2D", paths |-> <<>>]
PolyCollection(paths) == [kind |-> "PolyCollection", paths |-> paths]

\* the attributes generate_hydrograph creates: the axes, the texts of the
\* title, the lines of the water levels and the artists of the weather
Attributes == {"axes", "texts", "waterlvl", "weather"}

InitPlotState ==
    /\ __isHydrographExists = FALSE
    /\ created = {}
    /\ gluedf = "None"
    /\ __glue_wl_on = FALSE
    /\ __mrc_wl_on = FALSE
    /\ stack = <<>>
    /\ axLow_ymax = NaN
    /\ ax2_ymin = NaN
    /\ ax2_ymax = NaN
    /\ ax2_yticks = <<>>
    /\ ax1_xlim = <<NaN, NaN>>
    /\ istart = 0
    /\ iend = 0
    /\ PTOT_bar = NoArtist
    /\ RAINscale = Num(20)
    /\ yticksmax = NaN
    /\ ax3_ymax = NaN
    /\ ax3_yticks = <<>>
InitFigure ==
    /\ InitBinState /\ InitWLState /\ InitTimeState
    /\ InitLayoutState /\ InitTickState /\ InitPlotState

NoWeather == TIMEmeteo = <<>> /\ TMAX = <<>> /\ PTOT = <<>> /\ RAIN = <<>>
NoWaterLevels == wldset = [WL |-> <<>>, Elevation |-> Num(0)] /\ xldates = <<>>

\* the figure after construction and the assignment of a weather dataset
InitBin ==
    /\ \E L \in Lengths, p \in 1..NumPatterns :
          /\ TIMEmeteo = wx_time(L)
          /\ TMAX = wx_tmax(p, L)
          /\ PTOT = wx_ptot(p, L)
          /\ RAIN = wx_rain(p, L)
    /\ wxdset = "wxdset"
    /\ InitFigure /\ NoWaterLevels
    /\ op = "init" /\ err = "none"

NextBin == resample_bin \/ set_bwidth_indx

SpecBin == InitBin /\ [][NextBin]_vars

-----------------------------------------------------------------------------
(* The water level dataset handed over by set_wldset *)

SeqsUpTo(S, n) == UNION {[1..k -> S] : k \in 0..n}

\* water levels in metres below the ground surface, NaN where missing
WLValues == {NaN, Num(0), Num(10), Rat(9, 20), Rat(3, 2)}
\* elevation of the ground surface at the well
Elevations == {Num(0), Rat(1003, 10)}

InitWL ==
    /\ \E w \in SeqsUpTo(WLValues, MaxWLLen), e \in Elevations :
          wldset = [WL |-> w, Elevation |-> e]
    /\ xldates = <<>>
    /\ NoWeather /\ wxdset = "None"
    /\ InitFigure
    /\ op = "init" /\ err = "none"

NextWL == best_fit_waterlvl \/ set_NZGrid \/ set_WLdatum

SpecWL == InitWL /\ [][NextWL]_vars

\* time stamps of the water level record: 2000-01-01, 2000-01-15,
\* 2000-01-31 12:00, 2000-02-29 12:00, 2000-11-30, 2000-12-31 12:00,
\* 2001-12-01, 2001-12-20, 2002-01-01, and a day number xlrd rejects
TimeValues ==
    {Num(36526), Num(36540), Rat(73113, 2), Rat(73171, 2), Num(36860),
     Rat(73783, 2), Num(37226), Num(37245), Num(37257), Num(30)}

IsIncreasing(t) == \A i \in 1..(Len(t) - 1) : FLess(t[i], t[i + 1])

InitTime ==
    /\ \E t \in SeqsUpTo(TimeValues, MaxTimeLen) :
          IsIncreasing(t) /\ xldates = t
    /\ wldset = [WL |-> <<>>, Elevation |-> Num(0)]
    /\ NoWeather /\ wxdset = "None"
    /\ InitFigure
    /\ op = "init" /\ err = "none"

NextTime == best_fit_time

SpecTime == InitTime /\ [][NextTime]_vars

\* number of axes generate_hydrograph adds to the figure
NumAxes == 6

\* The figure after set_wldset, best_fit_time(wldset.xldates),
\* best_fit_waterlvl() and generate_hydrograph(), without weather dataset:
\* the weather series are empty and resampled by weeks, and the axes have
\* the positions of the constructor's page setup.
GeneratedFigure(w, t) ==
    /\ wldset = w
    /\ xldates = t
    /\ NoWeather /\ wxdset = "None"
    /\ bTIME = <<>> /\ bTMAX = <<>> /\ bPTOT = <<>> /\ bRAIN = <<>>
    /\ shared = {}
    /\ bwidth_indx = 1
    /\ bwidth = BinWidths[2]
    /\ WLdatum = 0
    /\ NZGrid = 8
    /\ \E r \in {fit_waterlvl(w, 0, 8)} :
          WLscale = r.WLscale /\ WLmin = r.WLmin
    /\ \E r \in {fit_time(t)} :
          /\ TIMEmin = r.TIMEmin /\ TIMEmax = r.TIMEmax
          /\ date0 = r.date0 /\ date1 = r.date1
    /\ fwidth = Num(11)
    /\ fheight = Num(7)
    /\ va_ratio = Rat(1, 5)
    /\ __meteo_on = TRUE
    /\ isGraphTitle = 1
    /\ isLegend = 1
    /\ axes = set_margins_positions(NumAxes, Num(11), Num(7), FALSE, 1, 1,
                                    Rat(1, 5))
    /\ InitTickState
    /\ __isHydrographExists = TRUE
    /\ created = Attributes
    /\ gluedf = "None"
    /\ __glue_wl_on = FALSE
    /\ __mrc_wl_on = FALSE
    /\ stack = <<>>
    /\ axLow_ymax = Num(waterlvl_divisions(FALSE, 8))
    /\ \E lim \in {ax2_limits(0, WLmin, WLscale,
                               waterlvl_divisions(FALSE, 8))} :
          /\ ax2_ymin = lim[1]
          /\ ax2_ymax = lim[2]
          /\ ax2_yticks = ax2_ticks(FALSE, 0, lim, WLscale)
    /\ ax1_xlim = <<TIMEmin, TIMEmax>>
    /\ istart = 0
    /\ iend = 0
    /\ PTOT_bar = Line2D
    /\ RAINscale = Num(20)
    /\ yticksmax = NaN
    /\ ax3_ymax = NaN
    /\ ax3_yticks = <<>>
    /\ op = "generate_hydrograph" /\ err = "none"

-----------------------------------------------------------------------------
(* Plot of the weather data *)

\* the first index (from 1) of a bin later than tmin and the last index of a
\* bin earlier than tmax, 0 when there is none: np.where(..)[0]
where_after(bT, tmin) ==
    IF \E i \in 1..Len(bT) : FLess(tmin, bT[i])
    THEN CHOOSE i \in 1..Len(bT) :
             /\ FLess(tmin, bT[i])
             /\ \A j \in 1..(i - 1) : ~FLess(tmin, bT[j])
    ELSE 0
where_before(bT, tmax) ==
    IF \E i \in 1..Len(bT) : FLess(bT[i], tmax)
    THEN CHOOSE i \in 1..Len(bT) :
             /\ FLess(bT[i], tmax)
             /\ \A j \in (i + 1)..Len(bT) : ~FLess(bT[j], tmax)
    ELSE 0

\* istart, counted from 0 as in the code, from the index k (from 1) of the
\* first bin later than TIMEmin: one bin earlier unless it is the first bin
weather_istart(k) == IF k = 0 THEN 0 ELSE IF k - 1 > 0 THEN k - 2 ELSE k - 1

\* iend, counted from 0, from the index k (from 1) of the last bin earlier
\* than TIMEmax: iend < len(self.bTIME) always holds
weather_iend(k) == k

\* x[a:b] for 0 <= a and 0 <= b
py_slice(x, a, b) ==
    IF b <= a \/ Len(x) <= a THEN <<>>
    ELSE [i \in 1..((IF b < Len(x) THEN b ELSE Len(x)) - a) |-> x[a + i]]

\* Ptot2X: the four corners 0, Ptot, Ptot, 0 of the bar of each bin
Ptot2X(Ptot) ==
    [k \in 1..(4 * Len(Ptot)) |->
        IF k % 4 \in {2, 3} THEN Ptot[(k + 3) \div 4] ELSE Num(0)]

\* fill_between draws one polygon for each run of values that are not NaN:
\* the index where the n-th run starts and the index where the run ends
run_starts(y) ==
    {k \in 1..Len(y) : ~IsNaN(y[k]) /\ (k = 1 \/ IsNaN(y[k - 1]))}
run_start(y, n) ==
    CHOOSE k \in run_starts(y) :
        Cardinality({j \in run_starts(y) : j < k}) = n - 1
run_end(y, a) ==
    CHOOSE b \in a..Len(y) :
        /\ \A j \in a..b : ~IsNaN(y[j])
        /\ b = Len(y) \/ IsNaN(y[b + 1])

\* the y of the vertices of a polygon: the base line and the values of a run
polygon(y, a, b) == <<Num(0)>> \o [i \in 1..(b - a + 1) |-> y[a + i - 1]]

\* the paths of ax3.fill_between(TIME2X, 0., y)
fill_between(y) ==
    [n \in 1..Cardinality(run_starts(y)) |->
        polygon(y, run_start(y, n), run_end(y, run_start(y, n)))]

\* a method returns to the method that called it (the first of rest), or to
\* the caller of the figure; an exception goes up to the caller of the figure
call_return(rest) ==
    /\ pc' = IF rest = <<>> THEN "idle" ELSE Head(rest)
    /\ stack' = IF rest = <<>> THEN <<>> ELSE Tail(rest)
    /\ err' = "none"
call_raise(e) ==
    /\ pc' = "idle"
    /\ stack' = <<>>
    /\ err' = e

\* the end of update_precip_scale for the tick limit found: the axis of ax3
\* and its ticks np.arange(0, yticksmax, RAINscale)
precip_axis(limit, attrs, rest) ==
    /\ yticksmax' = limit
    /\ IF "axes" \notin attrs
       THEN call_raise("AttributeError") /\ UNCHANGED <<ax3_ymax, ax3_yticks>>
       ELSE IF RAINscale = Num(0)
       THEN /\ call_raise("ZeroDivisionError")
            /\ ax3_ymax' = FMul(Num(NZGrid), RAINscale)
            /\ UNCHANGED ax3_yticks
       ELSE /\ call_return(rest)
            /\ ax3_ymax' = FMul(Num(NZGrid), RAINscale)
            /\ ax3_yticks' = np_arange(Num(0), limit, RAINscale)

\* update_precip_scale with weather plotted, up to its loop: without a first
\* path the except clause sets the tick limit to 3.9 * RAINscale
precip_enter(bar, attrs, rest) ==
    IF bar.kind = "PolyCollection" /\ bar.paths # <<>>
    THEN /\ yticksmax' = Num(0)
         /\ pc' = "precip"
         /\ stack' = rest
         /\ err' = "none"
         /\ UNCHANGED <<ax3_ymax, ax3_yticks>>
    ELSE precip_axis(FMul(Rat(39, 10), RAINscale), attrs, rest)

\* if yticksmax > max(y): break, else yticksmax += self.RAINscale; after the
\* loop yticksmax = min(ymax, yticksmax) + self.RAINscale/2
precip_next(top) ==
    IF FLess(top, yticksmax)
    THEN precip_axis(FAdd(FMin2(FMul(Num(NZGrid), RAINscale), yticksmax),
                          FDiv(RAINscale, Num(2))),
                     created, stack)
    ELSE /\ yticksmax' = FAdd(yticksmax, RAINscale)
         /\ UNCHANGED <<pc, stack, err, ax3_ymax, ax3_yticks>>

\* one iteration of the loop of update_precip_scale, on the y of the first
\* path of PTOT_bar
update_precip_scale_step ==
    /\ pc = "precip"
    /\ precip_next(np_max(PTOT_bar.paths[1]))
    /\ UNCHANGED <<op, istart, iend, PTOT_bar, RAINscale>>
    /\ UNCHANGED <<figVars, axisVars>>
    /\ UNCHANGED <<binVars, wlVars, timeVars, layoutVars>>
    /\ UNCHANGED <<tickConfig, tickLocals, xticks_info>>

\* Hydrograph.update_precip_scale, up to its loop
update_precip_scale ==
    /\ pc = "idle"
    /\ op' = "update_precip_scale"
    /\ IF meteo_on THEN precip_enter(PTOT_bar, created, <<>>)
       ELSE call_return(<<>>) /\ UNCHANGED <<yticksmax, ax3_ymax, ax3_yticks>>
    /\ UNCHANGED <<istart, iend, PTOT_bar, RAINscale>>
    /\ UNCHANGED <<figVars, axisVars>>
    /\ UNCHANGED <<binVars, wlVars, timeVars, layoutVars>>
    /\ UNCHANGED <<tickConfig, tickLocals, xticks_info>>

\* self.PTOT_bar = self.ax3.fill_between(..) and, after the plot of the air
\* temperature, self.update_precip_scale()
weather_bars(bar, attrs, rest) ==
    /\ PTOT_bar' = bar
    /\ precip_enter(bar, attrs, rest)

\* self.PTOT_bar.remove() raises
weather_remove_failed(e, bar) ==
    /\ PTOT_bar' = bar
    /\ call_raise(e)
    /\ UNCHANGED <<yticksmax, ax3_ymax, ax3_yticks>>

\* the slice istart:iend of the bins and its bars, which replace the bars
\* bar.  Without the attribute PTOT_bar the removal raises; the removal of
\* bars of a cleared figure raises or not, with the version of matplotlib.
weather_slice(a, b, bar, attrs, rest) ==
    /\ istart' = a
    /\ iend' = b
    /\ IF "weather" \notin attrs
       THEN weather_remove_failed("AttributeError", bar)
       ELSE \/ weather_bars(
                   PolyCollection(fill_between(Ptot2X(py_slice(bPTOT, a, b)))),
                   attrs, rest)
            \/ "stale" \in attrs /\ weather_remove_failed("ValueError", bar)

\* draw_weather for a figure with the attributes attrs and the bars bar:
\* nothing is drawn when the weather is not plotted
weather_draw(meteo, bar, attrs, rest) ==
    IF ~meteo
    THEN /\ call_return(rest)
         /\ PTOT_bar' = bar
         /\ UNCHANGED <<istart, iend, yticksmax, ax3_ymax, ax3_yticks>>
    ELSE weather_slice(weather_istart(where_after(bTIME, TIMEmin)),
                       weather_iend(where_before(bTIME, TIMEmax)),
                       bar, attrs, rest)

\* Hydrograph.draw_weather, up to the loop of update_precip_scale
draw_weather ==
    /\ pc = "idle"
    /\ op' = "draw_weather"
    /\ weather_draw(meteo_on, PTOT_bar, created, <<>>)
    /\ UNCHANGED RAINscale
    /\ UNCHANGED <<figVars, axisVars>>
    /\ UNCHANGED <<binVars, wlVars, timeVars, layoutVars>>
    /\ UNCHANGED <<tickConfig, tickLocals, xticks_info>>

\* values of the precipitation scale: HydroPrint has a spin box from 5 to 500
\* and RAINscale is a plain attribute
RainScales == {Num(0), Num(1), Num(5), Num(20)}

\* hydrograph.RAINscale = ..
set_RAINscale ==
    /\ pc = "idle"
    /\ \E x \in RainScales : RAINscale' = x
    /\ op' = "set_RAINscale"
    /\ err' = "none"
    /\ UNCHANGED <<istart, iend, PTOT_bar, yticksmax, ax3_ymax, ax3_yticks>>
    /\ UNCHANGED <<figVars, axisVars, stack>>
    /\ UNCHANGED <<binVars, wlVars, timeVars, layoutVars, tickVars>>

-----------------------------------------------------------------------------
(* generate_hydrograph and the settings of the figure *)

\* number of days of the weather dataset of the figure
WxDays == 35

\* the daily series of the weather dataset: five weeks with missing days
wxdset_data ==
    [Time |-> wx_time(WxDays), Tmax |-> wx_tmax(2, WxDays),
     Ptot |-> wx_ptot(2, WxDays), Rain |-> wx_rain(2, WxDays)]

\* the attributes of a figure that is cleared: the artists it has belong to
\* no figure any more ("stale") until generate_hydrograph makes new ones
cleared(attrs) == IF "waterlvl" \in attrs THEN attrs \cup {"stale"} ELSE attrs

\* self.add_axes([0, 0, 1, 1]) and the axes added at the same position
added_axes == [k \in 1..NumAxes |-> <<Num(0), Num(0), Num(1), Num(1)>>]

\* generate_hydrograph is left by an exception of setup_waterlvl_scale or of
\* set_margins
generate_raise(e) ==
    /\ call_raise(e)
    /\ axes' = added_axes
    /\ UNCHANGED <<TIMEmin, TIMEmax, tickLocals>>

\* set_margins, the texts of the title and set_time_scale
generate_margins(attrs) ==
    IF fwidth = Num(0) \/ fheight = Num(0)
    THEN /\ generate_raise("ZeroDivisionError")
         /\ created' = attrs
    ELSE /\ axes' = set_margins_positions(NumAxes, fwidth, fheight, meteo_on,
                                          isGraphTitle, isLegend, va_ratio)
         /\ created' = attrs \cup {"texts"}
         /\ time_scale_call(time_scale_limits, attrs \cup {"texts"},
                            <<"generate_hydrograph">>)

\* the creation of the axes and setup_waterlvl_scale
generate_axes(attrs) ==
    /\ waterlvl_scale(meteo_on, waterlvl_divisions(meteo_on, NZGrid))
    /\ IF waterlvl_scale_err # "none"
       THEN generate_raise(waterlvl_scale_err) /\ created' = attrs
       ELSE generate_margins(attrs)

\* resample_bin on the daily series just assigned
generate_bins(bw, T, X, P, R) ==
    /\ TIMEmeteo' = T /\ TMAX' = X /\ PTOT' = P /\ RAIN' = R
    /\ bwidth' = bw
    /\ shared' = {}
    /\ IF bwidth_indx = 0
       THEN bTIME' = T /\ bTMAX' = X /\ bPTOT' = P /\ bRAIN' = R
       ELSE /\ bTIME' = ArrDiv(bin_sum(T, bw).val, Num(bw))
            /\ bTMAX' = ArrDiv(bin_sum(X, bw).val, Num(bw))
            /\ bPTOT' = bin_sum(P, bw).val
            /\ bRAIN' = bin_sum(R, bw).val

\* the weather series generate_hydrograph assigns
generate_weather(d) ==
    IF wxdset = "None"
    THEN generate_bins(BinWidths[bwidth_indx + 1], <<>>, <<>>, <<>>, <<>>)
    ELSE generate_bins(BinWidths[bwidth_indx + 1], d.Time, d.Tmax, d.Ptot,
                       d.Rain)

\* Hydrograph.generate_hydrograph(), up to the loop of the ticks of
\* set_time_scale
generate_hydrograph_begin ==
    /\ pc = "idle"
    /\ op' = "generate_hydrograph"
    /\ __isHydrographExists' = FALSE
    /\ generate_weather(wxdset_data)
    /\ generate_axes(cleared(created) \cup {"axes"})
    /\ UNCHANGED <<bwidth_indx, xldates, date0, date1, tickConfig, xticks_info>>
    /\ UNCHANGED <<gluedf, __glue_wl_on, __mrc_wl_on, ax1_xlim, weatherVars>>
    /\ UNCHANGED <<fwidth, fheight, va_ratio, __meteo_on, wxdset, isGraphTitle,
                   isLegend>>
    /\ UNCHANGED wlVars

\* generate_hydrograph after set_time_scale: the artists of the water levels
\* and of the weather, and draw_weather up to the loop of update_precip_scale
generate_hydrograph_artists ==
    /\ pc = "generate_hydrograph"
    /\ created' = (created \cup {"waterlvl", "weather"}) \ {"stale"}
    /\ weather_draw(meteo_on, Line2D,
                    (created \cup {"waterlvl", "weather"}) \ {"stale"},
                    <<"generate_end">> \o stack)
    /\ UNCHANGED <<op, RAINscale, axisVars>>
    /\ UNCHANGED <<__isHydrographExists, gluedf, __glue_wl_on, __mrc_wl_on>>
    /\ UNCHANGED <<binVars, wlVars, timeVars, layoutVars>>
    /\ UNCHANGED <<tickConfig, tickLocals, xticks_info>>

\* the end of generate_hydrograph: draw_ylabels, setup_legend and the flag
generate_hydrograph_end ==
    /\ pc = "generate_end"
    /\ __isHydrographExists' = TRUE
    /\ call_return(stack)
    /\ UNCHANGED <<op, created, gluedf, __glue_wl_on, __mrc_wl_on>>
    /\ UNCHANGED <<axisVars, weatherVars>>
    /\ UNCHANGED <<binVars, wlVars, timeVars, layoutVars>>
    /\ UNCHANGED <<tickConfig, tickLocals, xticks_info>>

\* Hydrograph.clf: the flag, and the figure loses its axes
clf ==
    /\ pc = "idle"
    /\ op' = "clf"
    /\ err' = "none"
    /\ __isHydrographExists' = FALSE
    /\ created' = cleared(created)
    /\ axes' = <<>>
    /\ UNCHANGED <<gluedf, __glue_wl_on, __mrc_wl_on, stack>>
    /\ UNCHANGED <<fwidth, fheight, va_ratio, __meteo_on, wxdset, isGraphTitle,
                   isLegend>>
    /\ UNCHANGED <<axisVars, weatherVars>>
    /\ UNCHANGED <<binVars, wlVars, timeVars, tickVars>>

\* the outcomes of draw_glue_wl, which reads self.glue_plt first and, when
\* the GLUE levels are plotted, removes it: the removal of an artist of a
\* cleared figure raises or not, with the version of matplotlib
draw_glue_wl_outcomes(glue, attrs) ==
    IF "waterlvl" \notin attrs THEN {"AttributeError"}
    ELSE IF glue /\ "stale" \in attrs THEN {"none", "ValueError"}
    ELSE {"none"}

\* the outcome of setup_legend: it reads self.lmiss_ax4 when the weather is
\* plotted, self.l1_ax2 and self.ax0 when there is a legend, and self.ax0
\* when there is none
setup_legend_outcome(meteo, attrs) ==
    IF isLegend = 1 /\ meteo /\ "weather" \notin attrs THEN "AttributeError"
    ELSE IF isLegend = 1 /\ "waterlvl" \notin attrs THEN "AttributeError"
    ELSE IF "axes" \notin attrs THEN "AttributeError"
    ELSE "none"

\* self.draw_glue_wl(); self.setup_legend()
gluedf_outcomes(glue, attrs) ==
    {IF e = "none" THEN setup_legend_outcome(meteo_on, attrs) ELSE e :
        e \in draw_glue_wl_outcomes(glue, attrs)}

\* Hydrograph.set_gluedf, with the results of a GLUE run or None
set_gluedf ==
    /\ pc = "idle"
    /\ op' = "set_gluedf"
    /\ \E x \in {"None", "gluedf"} :
          /\ gluedf' = x
          /\ err' \in gluedf_outcomes(__glue_wl_on /\ x # "None", created)
    /\ UNCHANGED <<__isHydrographExists, created, __glue_wl_on, __mrc_wl_on>>
    /\ UNCHANGED <<axisVars, weatherVars, stack>>
    /\ UNCHANGED <<binVars, wlVars, timeVars, layoutVars, tickVars>>

\* Hydrograph.set_glue_wl_on: draw_glue_wl and setup_legend on a generated
\* figure only
set_glue_wl_on ==
    /\ pc = "idle"
    /\ op' = "set_glue_wl_on"
    /\ \E x \in BOOLEAN :
          /\ __glue_wl_on' = x
          /\ err' \in IF __isHydrographExists
                      THEN gluedf_outcomes(x /\ gluedf # "None", created)
                      ELSE {"none"}
    /\ UNCHANGED <<__isHydrographExists, created, gluedf, __mrc_wl_on>>
    /\ UNCHANGED <<axisVars, weatherVars, stack>>
    /\ UNCHANGED <<binVars, wlVars, timeVars, layoutVars, tickVars>>

\* Hydrograph.set_mrc_wl_on: draw_mrc_wl, which reads self._mrc_plt, and
\* setup_legend on a generated figure only
set_mrc_wl_on ==
    /\ pc = "idle"
    /\ op' = "set_mrc_wl_on"
    /\ \E x \in BOOLEAN : __mrc_wl_on' = x
    /\ err' = IF ~__isHydrographExists THEN "none"
              ELSE IF "waterlvl" \notin created THEN "AttributeError"
              ELSE setup_legend_outcome(meteo_on, created)
    /\ UNCHANGED <<__isHydrographExists, created, gluedf, __glue_wl_on>>
    /\ UNCHANGED <<axisVars, weatherVars, stack>>
    /\ UNCHANGED <<binVars, wlVars, timeVars, layoutVars, tickVars>>

\* set_meteo_on on a generated figure: setup_waterlvl_scale and draw_weather
meteo_on_redraw(meteo) ==
    /\ waterlvl_scale(meteo, waterlvl_divisions(meteo, NZGrid))
    /\ IF waterlvl_scale_err # "none"
       THEN /\ call_raise(waterlvl_scale_err)
            /\ UNCHANGED <<istart, iend, PTOT_bar, yticksmax, ax3_ymax,
                           ax3_yticks>>
       ELSE weather_draw(meteo, PTOT_bar, created, <<>>)

\* Hydrograph.set_meteo_on, up to the loop of update_precip_scale
set_meteo_on ==
    /\ pc = "idle"
    /\ op' = "set_meteo_on"
    /\ \E x \in BOOLEAN :
          /\ __meteo_on' = x
          /\ IF __isHydrographExists
             THEN meteo_on_redraw(x /\ wxdset # "None")
             ELSE /\ call_return(<<>>)
                  /\ UNCHANGED <<axLow_ymax, ax2_ymin, ax2_ymax, ax2_yticks>>
                  /\ UNCHANGED <<istart, iend, PTOT_bar, yticksmax, ax3_ymax,
                                 ax3_yticks>>
    /\ UNCHANGED <<fwidth, fheight, va_ratio, wxdset, isGraphTitle, isLegend,
                   axes>>
    /\ UNCHANGED <<figVars, ax1_xlim, RAINscale>>
    /\ UNCHANGED <<binVars, wlVars, timeVars>>
    /\ UNCHANGED <<tickConfig, tickLocals, xticks_info>>

\* Hydrograph.update_colors, up to the loop of update_precip_scale: nothing
\* is done without a generated figure
update_colors ==
    /\ pc = "idle"
    /\ op' = "update_colors"
    /\ IF __isHydrographExists
       THEN weather_draw(meteo_on, PTOT_bar, created, <<>>)
       ELSE /\ call_return(<<>>)
            /\ UNCHANGED <<istart, iend, PTOT_bar, yticksmax, ax3_ymax,
                           ax3_yticks>>
    /\ UNCHANGED RAINscale
    /\ UNCHANGED <<figVars, axisVars>>
    /\ UNCHANGED <<binVars, wlVars, timeVars, layoutVars>>
    /\ UNCHANGED <<tickConfig, tickLocals, xticks_info>>

-----------------------------------------------------------------------------
(* Specifications *)

InitLayout ==
    GeneratedFigure([WL |-> <<Num(0), Num(10)>>, Elevation |-> Rat(1003, 10)],
                    <<Num(36526), Num(36540)>>)

NextLayout ==
    \/ set_margins
    \/ set_figure_size
    \/ set_va_ratio
    \/ set_title_legend
    \/ meteo_on_setter
    \/ set_wxdset

SpecLayout == InitLayout /\ [][NextLayout]_vars

\* time stamps of the water level record behind the time axis of the ticks:
\* from 2000-01-01 or 2000-11-30, one time stamp or a second one up to
\* MaxTickYears later
TickSeries ==
    { <<Num(f)>> : f \in {36526, 36860} }
    \cup { <<Num(f), Num(f + 360 * k - 1)>> :
              f \in {36526, 36860}, k \in 1..MaxTickYears }

InitTicks ==
    \E t \in TickSeries :
        GeneratedFigure([WL |-> <<Num(0), Num(10)>>,
                         Elevation |-> Rat(1003, 10)], t)

NextTicks ==
    \/ make_xticks_info_begin
    \/ make_xticks_info_step
    \/ set_datemode
    \/ set_date_labels_pattern
    \/ set_language

SpecTicks == InitTicks /\ [][NextTicks]_vars

\* a figure holding a weather dataset of 8 or 31 days and a water level
\* record with a missing value
InitInputs ==
    /\ \E L \in {8, 31}, p \in 1..NumPatterns :
          /\ TIMEmeteo = wx_time(L)
          /\ TMAX = wx_tmax(p, L)
          /\ PTOT = wx_ptot(p, L)
          /\ RAIN = wx_rain(p, L)
    /\ wxdset = "wxdset"
    /\ wldset = [WL |-> <<Rat(3, 2), NaN, Num(10)>>,
                 Elevation |-> Rat(1003, 10)]
    /\ xldates = <<Num(36526), Num(36540), Num(36860)>>
    /\ InitFigure
    /\ op = "init" /\ err = "none"

NextInputs ==
    \/ resample_bin
    \/ set_bwidth_indx
    \/ best_fit_waterlvl
    \/ set_WLdatum
    \/ best_fit_time

SpecInputs == InitInputs /\ [][NextInputs]_vars

\* Water level datasets, as the rows of the time stamps and the levels of a
\* well: no row, complete records, records with missing levels, a record
\* whose last time stamp is missing, and a record that ends on 9999-12-31
FitDatasets ==
    { [WL |-> <<>>, Time |-> <<>>],
      [WL |-> <<Num(0), Num(10)>>, Time |-> <<Num(36860), Num(37245)>>],
      [WL |-> <<Rat(3, 2), NaN, Num(10)>>,
       Time |-> <<Num(36540), Num(36860), Num(37245)>>],
      [WL |-> <<NaN, NaN>>, Time |-> <<Num(36540), Num(36860)>>],
      [WL |-> <<Rat(9, 20), Rat(3, 2)>>, Time |-> <<Num(36860), NaN>>],
      [WL |-> <<Num(0), Rat(3, 2)>>, Time |-> <<Num(37245), Num(2958465)>>],
      [WL |-> <<Num(10)>>, Time |-> <<NaN>>] }

\* Hydrograph.set_wldset: another dataset replaces the current one
set_wldset ==
    /\ pc = "idle"
    /\ \E d \in FitDatasets :
          /\ wldset' = [WL |-> d.WL, Elevation |-> Rat(1003, 10)]
          /\ xldates' = d.Time
    /\ op' = "set_wldset"
    /\ err' = "none"
    /\ UNCHANGED <<WLdatum, NZGrid, WLscale, WLmin>>
    /\ UNCHANGED <<TIMEmin, TIMEmax, date0, date1>>
    /\ UNCHANGED <<binVars, layoutVars, tickVars, plotVars>>

\* the figure after construction and set_wldset
InitFit ==
    /\ \E d \in FitDatasets :
          /\ wldset = [WL |-> d.WL, Elevation |-> Rat(1003, 10)]
          /\ xldates = d.Time
    /\ NoWeather /\ wxdset = "None"
    /\ InitFigure
    /\ op = "set_wldset" /\ err = "none"

NextFit ==
    \/ set_wldset
    \/ best_fit_waterlvl
    \/ best_fit_time
    \/ set_WLdatum

SpecFit == InitFit /\ [][NextFit]_vars

\* water level records of the scaled figure: levels from 0 to 30 m below the
\* surface with a missing level, and levels from 0.5 to 2.7 m
ScaleSeries ==
    { <<Num(0), NaN, Num(30), Rat(9, 20)>>,
      <<Rat(27, 10), NaN, Rat(1, 2)>> }

InitScale ==
    \E w \in ScaleSeries :
        GeneratedFigure([WL |-> w, Elevation |-> Rat(1003, 10)],
                        <<Num(36526), Num(36540)>>)

NextScale ==
    \/ best_fit_waterlvl
    \/ setup_waterlvl_scale
    \/ set_NZGrid
    \/ set_WLdatum
    \/ set_wxdset

SpecScale == InitScale /\ [][NextScale]_vars

\* a generated figure whose time axis is changed
InitAxis ==
    GeneratedFigure([WL |-> <<Num(0), Num(10)>>, Elevation |-> Rat(1003, 10)],
                    <<Num(36526), Num(36540)>>)

NextAxis ==
    \/ set_time_limits
    \/ set_datemode
    \/ make_xticks_info_begin
    \/ make_xticks_info_step
    \/ set_time_scale_begin
    \/ set_time_scale_end

SpecAxis == InitAxis /\ [][NextAxis]_vars

\* A step of a call that is inside the loop of make_xticks_info: the loop
\* goes on with i + 1, returns to its caller or raises.  These are the steps
\* of make_xticks_info_step, given by the position of the call and i alone.
xticks_iteration ==
    /\ pc = "xticks"
    /\ \/ pc' = "xticks" /\ xtick_i' = xtick_i + 1
       \/ pc' \in {"idle", "set_time_scale"} /\ xtick_i' = 0

\* a call that is inside the loop of make_xticks_info runs its next iteration
SpecAxisFair == SpecAxis /\ WF_<<pc, xtick_i>>(xticks_iteration)

\* A new figure after set_wldset, set_wxdset, best_fit_waterlvl() and the
\* assignment of the limits lim of the time axis
NewFigure(lim) ==
    /\ wldset = [WL |-> <<Num(0), Num(10)>>, Elevation |-> Rat(1003, 10)]
    /\ xldates = <<Num(36526), Num(36540)>>
    /\ NoWeather /\ wxdset = "wxdset"
    /\ InitBinState
    /\ WLdatum = 0
    /\ NZGrid = 8
    /\ \E r \in {fit_waterlvl(wldset, 0, 8)} :
          WLscale = r.WLscale /\ WLmin = r.WLmin
    /\ TIMEmin = lim[1] /\ TIMEmax = lim[2]
    /\ date0 = <<0, 0, 0>> /\ date1 = <<0, 0, 0>>
    /\ InitLayoutState /\ InitTickState /\ InitPlotState
    /\ op = "set_time_limits" /\ err = "none"

\* a figure that is generated and whose weather is drawn again
InitWeather == \E lim \in TimeLimits : NewFigure(lim)

NextWeather ==
    \/ set_RAINscale
    \/ generate_hydrograph_begin
    \/ make_xticks_info_step
    \/ set_time_scale_end
    \/ generate_hydrograph_artists
    \/ update_precip_scale_step
    \/ generate_hydrograph_end
    \/ draw_weather
    \/ update_precip_scale

SpecWeather == InitWeather /\ [][NextWeather]_vars

\* a call that is inside the loop of update_precip_scale runs its next
\* iteration
SpecWeatherFair == SpecWeather /\ WF_vars(update_precip_scale_step)

\* a figure whose settings are changed before and after generate_hydrograph
InitSettings == NewFigure(<<Num(36540), Num(36891)>>)

NextSettings ==
    \/ set_RAINscale
    \/ generate_hydrograph_begin
    \/ make_xticks_info_step
    \/ set_time_scale_end
    \/ generate_hydrograph_artists
    \/ update_precip_scale_step
    \/ generate_hydrograph_end
    \/ clf
    \/ set_meteo_on
    \/ set_glue_wl_on
    \/ set_mrc_wl_on
    \/ set_gluedf
    \/ update_colors

SpecSettings == InitSettings /\ [][NextSettings]_vars

\* every operation on one figure
Init ==
    \/ InitBin \/ InitWL \/ InitTime \/ InitLayout \/ InitTicks \/ InitInputs
    \/ InitFit \/ InitScale \/ InitAxis \/ InitWeather \/ InitSettings
Next ==
    \/ NextBin \/ NextWL \/ NextTime \/ NextLayout \/ NextTicks \/ NextFit
    \/ NextScale \/ NextAxis \/ NextWeather \/ NextSettings
Spec == Init /\ [][Next]_vars

-----------------------------------------------------------------------------
(* Properties of the binning *)

\* x[lo] + ... + x[hi], 0-based indices as in the program
RECURSIVE RangeSum(_, _, _)
RangeSum(x, lo, hi) ==
    IF hi < lo THEN Num(0)
    ELSE IF hi = lo THEN x[lo + 1]
    ELSE FAdd(RangeSum(x, lo, lo + ((hi - lo) \div 2)),
              RangeSum(x, lo + ((hi - lo) \div 2) + 1, hi))

Binned == op = "resample_bin" /\ bwidth \in {7, 30, 365}

\* the bins of y are the sums of the successive windows of width w of x
IsBinSumOf(y, x, w) ==
    /\ Len(y) = Len(x) \div w
    /\ \A k \in 0..(Len(y) - 1) : y[k + 1] = RangeSum(x, k * w, (k + 1) * w - 1)

\* C1: for a bin width of 7, 30 or 365 and a series of any length L, bin_sum
\* succeeds and returns floor(L / w) bins, bin k being the sum of the samples
\* k*w .. (k+1)*w - 1; the trailing L mod w samples are in no bin.
C1_BinWindows ==
    Binned =>
        /\ err = "none"
        /\ IsBinSumOf(bPTOT, PTOT, bwidth)
        /\ IsBinSumOf(bRAIN, RAIN, bwidth)
        /\ Len(bTIME) = Len(TIMEmeteo) \div bwidth
        /\ Len(bTMAX) = Len(TMAX) \div bwidth

\* a binned series with two bins and a dropped remainder
C1_Witness ==
    /\ Binned /\ err = "none"
    /\ Len(bPTOT) = 2
    /\ Len(PTOT) % bwidth # 0

\* C2: after resample_bin with a bin width w > 1 every bin of bPTOT and bRAIN
\* is the sum of its w samples and every bin of bTIME and bTMAX is the sum of
\* its w samples divided by w.
C2_SumAndMean ==
    (Binned /\ err = "none") =>
        \A k \in 1..Len(bPTOT) :
            LET win(x) == SubSeq(x, (k - 1) * bwidth + 1, k * bwidth)
            IN  /\ bPTOT[k] = np_sum(win(PTOT))
                /\ bRAIN[k] = np_sum(win(RAIN))
                /\ k \in DOMAIN bTIME
                /\ k \in DOMAIN bTMAX
                /\ bTIME[k] = FDiv(np_sum(win(TIMEmeteo)), Num(bwidth))
                /\ bTMAX[k] = FDiv(np_sum(win(TMAX)), Num(bwidth))

\* a mean that is not the sum: a bin of temperatures whose sum is not zero
C2_Witness ==
    /\ Binned /\ err = "none"
    /\ Len(bTMAX) >= 1
    /\ bTMAX[1] # Num(0)
    /\ bTMAX[1] # RangeSum(TMAX, 0, bwidth - 1)
    /\ bPTOT[1] # Num(0)

\* C3: when the bin width divides the length of the series, the bins of a
\* SUM-kind quantity add up to the sum of the whole series (both are NaN
\* when a sample is missing).
C3_SumPreserved ==
    (op = "resample_bin" /\ err = "none" /\ Len(PTOT) % bwidth = 0) =>
        /\ np_sum(bPTOT) = np_sum(PTOT)
        /\ np_sum(bRAIN) = np_sum(RAIN)

\* several bins of a series without missing days whose length is a multiple
\* of the bin width
C3_Witness ==
    /\ Binned /\ err = "none"
    /\ Len(PTOT) % bwidth = 0
    /\ Len(bPTOT) >= 2
    /\ ~IsNaN(np_sum(bPTOT))
    /\ np_sum(bPTOT) # Num(0)

-----------------------------------------------------------------------------
(* Properties of the best fit of the water level axis *)

Fitted == op = "best_fit_waterlvl" /\ err = "none"

\* the candidate steps 0.05, 0.10, .., 0.25, 0.3, 0.4, .., 5.0
Candidates == {Rat(k, 20) : k \in 1..5} \cup {Rat(k, 10) : k \in 3..50}

\* the water levels that are not NaN, and the largest and smallest of them
Levels == {wldset.WL[i] : i \in 1..Len(wldset.WL)} \ {NaN}
Highest == CHOOSE x \in Levels : \A y \in Levels : FLeq(y, x)
Lowest  == CHOOSE x \in Levels : \A y \in Levels : FLeq(x, y)

\* the distance of a candidate step to the target step
Distance(c) == FAbs(FSub(c, FDiv(FSub(Highest, Lowest), Num(NZGrid - 5))))

\* C4: the step returned by best_fit_waterlvl is the candidate closest to
\* (max - min) / (NZGrid - 5), the smallest one when several are equally
\* close; for levels spanning [0, 10] and NZGrid = 8 the step is 3.3.
C4_ClosestStep ==
    (Fitted /\ NZGrid > 5) =>
        /\ WLscale \in Candidates
        /\ \A c \in Candidates :
              /\ FLeq(Distance(WLscale), Distance(c))
              /\ Distance(c) = Distance(WLscale) => FLeq(WLscale, c)
        /\ (Lowest = Num(0) /\ Highest = Num(10) /\ NZGrid = 8)
              => WLscale = Rat(33, 10)

\* two candidates at the same distance of the target: the lower one is taken
C4_Witness ==
    /\ Fitted /\ NZGrid > 5
    /\ \E c \in Candidates : c # WLscale /\ Distance(c) = Distance(WLscale)

\* the values the axis shows: depths (mbgs) or elevations (masl)
LowestValue ==
    IF WLdatum = 1 THEN FSub(wldset.Elevation, Highest) ELSE Lowest
HighestValue ==
    IF WLdatum = 1 THEN FSub(wldset.Elevation, Lowest) ELSE Highest

IsMultipleOf(x, step) == FDiv(x, step)[2] = 1

\* C5: the origin is the smallest multiple of the step that is at least the
\* largest value (mbgs, ceil(max / step) * step) or the largest multiple of
\* the step that is at most the smallest value (masl, floor(min / step) *
\* step); it always is an integer multiple of the step.
C5_OriginAligned ==
    Fitted =>
        /\ IsMultipleOf(WLmin, WLscale)
        /\ WLdatum = 0 =>
              /\ FLeq(HighestValue, WLmin)
              /\ FLess(FSub(WLmin, WLscale), HighestValue)
        /\ WLdatum = 1 =>
              /\ FLeq(WLmin, LowestValue)
              /\ FLess(LowestValue, FAdd(WLmin, WLscale))

\* an elevation below zero that is not a multiple of the step
C5_Witness ==
    /\ Fitted /\ WLdatum = 1
    /\ FLess(LowestValue, Num(0))
    /\ WLmin # LowestValue

\* the dataset whose values are the two ends of the fitted value axis
AxisBounds ==
    LET far == FMul(Num(NZGrid), WLscale)
    IN  IF WLdatum = 1
        THEN [WL |-> <<FSub(wldset.Elevation, WLmin),
                       FSub(wldset.Elevation, FAdd(WLmin, far))>>,
              Elevation |-> wldset.Elevation]
        ELSE [WL |-> <<WLmin, FSub(WLmin, far)>>,
              Elevation |-> wldset.Elevation]

Refitted == fit_waterlvl(AxisBounds, WLdatum, NZGrid)

\* C8 as stated: fitting the two ends of a fitted axis returns the same step
\* and the same origin.
C8_Idempotent ==
    Fitted => /\ Refitted.err = "none"
              /\ Refitted.WLscale = WLscale
              /\ Refitted.WLmin = WLmin

\* C8: fitting the two ends of a fitted axis returns a step that is not
\* smaller than the fitted step; when the step is the same the origin is the
\* same too, which is the case for the largest candidate step 5.0.
C8_RefitNotSmaller ==
    Fitted =>
        /\ Refitted.err = "none"
        /\ FLeq(WLscale, Refitted.WLscale)
        /\ Refitted.WLscale = WLscale => Refitted.WLmin = WLmin
        /\ WLscale = Num(5) => Refitted.WLscale = WLscale

\* a fitted axis with the largest step in the masl datum
C8_Witness ==
    /\ Fitted /\ WLscale = Num(5) /\ WLdatum = 1
    /\ WLmin # Num(0)
    /\ Refitted.WLmin = WLmin

AllNaN == \A i \in 1..Len(wldset.WL) : IsNaN(wldset.WL[i])

\* C9: on a series whose values are all NaN best_fit_waterlvl fails with the
\* no-data error (the ValueError numpy raises on the empty selection) and
\* returns no scale.
C9_NoData ==
    (op = "best_fit_waterlvl" /\ AllNaN) => err = "ValueError"

C9_Witness ==
    /\ op = "best_fit_waterlvl" /\ AllNaN
    /\ Len(wldset.WL) = 2
    /\ err = "ValueError"

\* C10 as stated: with NZGrid - 5 < 1 best_fit_waterlvl fails and returns no
\* step and no origin.
C10_InvalidGridDivisions ==
    (op = "best_fit_waterlvl" /\ NZGrid <= 5) => err # "none"

-----------------------------------------------------------------------------
(* Properties of the best fit of the time axis *)

\* the Excel day number of a date after February 1900, counted from the
\* leap years before year y and the lengths of the years and months
LeapsBefore(y) == ((y - 1) \div 4) - ((y - 1) \div 100) + ((y - 1) \div 400)
DaysBeforeYear(y) == 365 * (y - 1900) + LeapsBefore(y) - LeapsBefore(1900)

RECURSIVE DaysBeforeMonth(_, _)
DaysBeforeMonth(y, m) ==
    IF m <= 1 THEN 0 ELSE DaysBeforeMonth(y, m - 1) + DaysInMonth(y, m - 1)

DayNumber(y, m, d) == 1 + DaysBeforeYear(y) + DaysBeforeMonth(y, m) + d

IsDate(date) == date[1] >= 1901 /\ date[2] \in 1..12 /\ date[3] >= 1

MonthBefore(date) ==
    IF date[2] = 1 THEN <<date[1] - 1, 12, 1>> ELSE <<date[1], date[2] - 1, 1>>

\* a series of time stamps xlrd accepts
ValidTimes == Len(xldates) >= 1
              /\ \A i \in 1..Len(xldates) : FLeq(Num(61), xldates[i])

FirstTime == xldates[1]
LastTime  == xldates[Len(xldates)]

\* C6: best_fit_time returns the first day of the month of the earliest time
\* stamp and the first day of the month after the month of the latest time
\* stamp (1 January of the next year after a December); 2000-01-15 ..
\* 2001-12-20 gives 2000-01-01 and 2002-01-01.
C6_TimeRange ==
    (op = "best_fit_time" /\ ValidTimes) =>
        /\ err = "none"
        /\ IsDate(date0) /\ date0[3] = 1
        /\ IsDate(date1) /\ date1[3] = 1
        /\ TIMEmin = Num(DayNumber(date0[1], date0[2], 1))
        /\ TIMEmax = Num(DayNumber(date1[1], date1[2], 1))
        /\ FLeq(TIMEmin, FirstTime)
        /\ FLess(FirstTime, FAdd(TIMEmin, Num(DaysInMonth(date0[1], date0[2]))))
        /\ FLeq(Num(DayNumber(MonthBefore(date1)[1], MonthBefore(date1)[2], 1)),
                LastTime)
        /\ FLess(LastTime, TIMEmax)
        /\ xldates = <<Num(36540), Num(37245)>>
              => date0 = <<2000, 1, 1>> /\ date1 = <<2002, 1, 1>>

\* the series 2000-01-15 .. 2001-12-20, fitted
C6_Witness ==
    /\ op = "best_fit_time" /\ err = "none"
    /\ xldates = <<Num(36540), Num(37245)>>
    /\ date1 = <<2002, 1, 1>>

TimeFitted == op = "best_fit_time" /\ err = "none"

TimeRefitted == fit_time(<<TIMEmin, TIMEmax>>)

\* C7 as stated: fitting the fitted bounds returns the same bounds.
C7_Idempotent ==
    TimeFitted => /\ TimeRefitted.err = "none"
                  /\ TimeRefitted.TIMEmin = TIMEmin
                  /\ TimeRefitted.TIMEmax = TIMEmax

\* C7: fitting the fitted bounds returns the same start date and an end date
\* one calendar month after the fitted end date.
C7_RefitOneMonthLater ==
    TimeFitted =>
        /\ TimeRefitted.err = "none"
        /\ TimeRefitted.TIMEmin = TIMEmin
        /\ TimeRefitted.date0 = date0
        /\ TimeRefitted.TIMEmax =
              FAdd(TIMEmax, Num(DaysInMonth(date1[1], date1[2])))
        /\ MonthBefore(TimeRefitted.date1) = date1

\* a fitted end date in December: the second fit ends in the next year
C7_Witness ==
    /\ TimeFitted
    /\ date1[2] = 12
    /\ TimeRefitted.date1 = <<date1[1] + 1, 1, 1>>

-----------------------------------------------------------------------------
(* Properties of the margins *)

AfterMargins == op = "set_margins" /\ err = "none"

\* the margins around the host axes, in inches
LeftInches == FMul(axes[1][1], fwidth)
RightInches == FMul(FSub(Num(1), FAdd(axes[1][1], axes[1][3])), fwidth)
BottomInches == FMul(axes[1][2], fheight)
TopInches == FMul(FSub(Num(1), FAdd(axes[1][2], axes[1][4])), fheight)

TitleOrLegend == isGraphTitle = 1 \/ isLegend = 1

\* the top margin of the specification, in inches
ExpectedTop ==
    IF TitleOrLegend /\ meteo_on THEN Rat(7, 10)
    ELSE IF TitleOrLegend THEN Rat(9, 20)
    ELSE Rat(1, 4)
\* the right margin of the specification, in inches
ExpectedRight == IF meteo_on THEN Rat(17, 20) ELSE Rat(3, 20)

\* C11: set_margins yields, in inches, left = 0.85, bottom = 0.6, right = 0.85
\* with the weather panel and 0.15 without, top = 0.25 plus 0.45 (title or
\* legend with the weather panel), 0.20 (title or legend without it) or 0;
\* the right margin is strictly smaller without the weather panel than with it.
C11_Margins ==
    AfterMargins =>
        /\ LeftInches = Rat(17, 20)
        /\ BottomInches = Rat(3, 5)
        /\ RightInches = ExpectedRight
        /\ TopInches = ExpectedTop
        /\ FLess(FMul(right_margin_of(fwidth, FALSE), fwidth),
                 FMul(right_margin_of(fwidth, TRUE), fwidth))

\* margins of a figure without weather panel, with a legend and no title
C11_Witness ==
    /\ AfterMargins
    /\ ~meteo_on /\ isGraphTitle = 0 /\ isLegend = 1
    /\ fheight = Rat(17, 2)
    /\ RightInches = Rat(3, 20)
    /\ TopInches = Rat(9, 20)

\* heights of the plotting area, of its upper part and of its lower part
Htot == axes[1][4]
Htop == axes[5][4]
Hlow == axes[3][4]
\* the ratio of the split: va_ratio with the weather panel, 0 without
SplitRatio == IF meteo_on THEN va_ratio ELSE Num(0)

\* C12: the plotting height htot (figure height minus top and bottom margins)
\* is split into htop = r*htot and hlow = (1 - r)*htot with htop + hlow =
\* htot, r being va_ratio with the weather panel and 0 without it.
C12_VerticalSplit ==
    AfterMargins =>
        /\ FMul(Htot, fheight) = FSub(fheight, FAdd(ExpectedTop, Rat(3, 5)))
        /\ Htop = FMul(SplitRatio, Htot)
        /\ Hlow = FMul(FSub(Num(1), SplitRatio), Htot)
        /\ FAdd(Htop, Hlow) = Htot
        /\ (~meteo_on => Htop = Num(0))

\* a hidden weather panel with a ratio of one half
C12_Witness ==
    /\ AfterMargins
    /\ ~meteo_on /\ va_ratio = Rat(1, 2)
    /\ Htop = Num(0) /\ Hlow = Htot /\ Htot # Num(0)

\* the axes share the horizontal extent of the host axes
SameHorizontalExtent ==
    \A k \in 1..Len(axes) : axes[k][1] = axes[1][1] /\ axes[k][3] = axes[1][3]

\* axes k spans the plotting area from its bottom up to the height h
FromBottom(k, h) == axes[k][2] = axes[1][2] /\ axes[k][4] = h
\* the air temperature axes occupy the upper part of the plotting area
UpperPart ==
    /\ axes[5][4] = FMul(SplitRatio, Htot)
    /\ FAdd(axes[5][2], axes[5][4]) = FAdd(axes[1][2], Htot)

\* C13 as stated: all axes share the horizontal extent and every axes other
\* than the one of the weather panel spans the full plotting height, the
\* weather panel's axes spanning the upper r fraction.
C13_FullSpan ==
    AfterMargins =>
        /\ SameHorizontalExtent
        /\ \A k \in (1..Len(axes)) \ {5} : FromBottom(k, Htot)
        /\ UpperPart

\* C13 amended: all axes share the horizontal extent; the time and frame axes
\* span the full plotting height, the water level, precipitation and bottom
\* grid axes span the lower (1 - r) fraction, and the air temperature axes
\* span the upper r fraction.
C13_LowerSpan ==
    AfterMargins =>
        /\ SameHorizontalExtent
        /\ \A k \in {1, 2} : FromBottom(k, Htot)
        /\ \A k \in {3, 4, 6} :
              FromBottom(k, FMul(FSub(Num(1), SplitRatio), Htot))
        /\ UpperPart

\* a visible weather panel: the lower part is smaller than the plotting area
C13_Witness ==
    /\ AfterMargins
    /\ meteo_on
    /\ FLess(Num(0), Htot)
    /\ FLess(axes[3][4], Htot)
    /\ FLess(Num(0), axes[5][4])

\* the margins of the specification leave no plotting area
Degenerate ==
    \/ FLeq(fwidth, FAdd(Rat(17, 20), ExpectedRight))
    \/ FLeq(fheight, FAdd(ExpectedTop, Rat(3, 5)))

\* C14: when the margins are at least as large as the figure, set_margins
\* reports an error instead of setting positions of zero or negative extent.
C14_DegenerateLayout ==
    (op = "set_margins" /\ Degenerate) => err # "none"

-----------------------------------------------------------------------------
(* Properties of the ticks of the time axis *)

\* make_xticks_info has returned its four lists
TicksReturned == pc = "idle" /\ op = "make_xticks_info" /\ err = "none"

MajorTicks == xticks_info[1]
TickLabels == xticks_info[3]
MinorTicks == xticks_info[4]

\* C15: every step of the walk yields one minor tick, and step number i
\* (from 0) also yields a major, labelled tick exactly when i mod strideN = 0;
\* with strideN = 2 the major ticks are every second minor tick from the
\* first one on.
C15_Stride ==
    (TicksReturned /\ date_labels_pattern >= 1) =>
        /\ Len(MinorTicks) >= 1
        /\ MinorTicks[1] = TIMEmin
        /\ \A k \in 1..(Len(MinorTicks) - 1) :
              FLess(MinorTicks[k], MinorTicks[k + 1])
        /\ Len(MajorTicks) =
              (Len(MinorTicks) + date_labels_pattern - 1)
                  \div date_labels_pattern
        /\ \A j \in 1..Len(MajorTicks) :
              MajorTicks[j] = MinorTicks[(j - 1) * date_labels_pattern + 1]
        /\ Len(TickLabels) = Len(MajorTicks)
        /\ Len(xticks_info[2]) = Len(MajorTicks)

\* 25 monthly ticks, every second one labelled
C15_Witness ==
    /\ TicksReturned
    /\ date_labels_pattern = 2
    /\ Len(MinorTicks) = 25
    /\ Len(MajorTicks) = 13
    /\ MajorTicks[2] = MinorTicks[3]

\* the first days of the months and of the years around the time axis
MonthStarts == (1999..(2002 + MaxTickYears)) \X (1..12)
YearStarts == (1999..(2002 + MaxTickYears)) \X {1}
StartOf(ym) == Num(DayNumber(ym[1], ym[2], 1))
Within(ym) == FLeq(TIMEmin, StartOf(ym)) /\ FLeq(StartOf(ym), TIMEmax)
IsStart(x, starts) == \E ym \in starts : StartOf(ym) = x

\* the calendar steps of the granularity of the time scale
Steps == IF str_lower(datemode) = "year" THEN YearStarts ELSE MonthStarts

\* C16: for startDate <= endDate aligned on the granularity, the minor ticks
\* are the calendar steps (months or years) from startDate that do not exceed
\* endDate, step 0 and a step landing on endDate included: 25 ticks by months
\* from 2000-01-01 to 2002-01-01.
C16_MinorCount ==
    (/\ TicksReturned
     /\ FLeq(TIMEmin, TIMEmax)
     /\ IsStart(TIMEmin, Steps) /\ IsStart(TIMEmax, Steps)) =>
        /\ Len(MinorTicks) = Cardinality({ym \in Steps : Within(ym)})
        /\ \A k \in 1..Len(MinorTicks) : IsStart(MinorTicks[k], Steps)
        /\ MinorTicks[Len(MinorTicks)] = TIMEmax
        /\ (/\ str_lower(datemode) = "month"
            /\ TIMEmin = Num(36526) /\ TIMEmax = Num(37257))
              => Len(MinorTicks) = 25

\* the three yearly ticks from 2000-01-01 to 2002-01-01
C16_Witness ==
    /\ TicksReturned
    /\ str_lower(datemode) = "year"
    /\ TIMEmin = Num(36526) /\ TIMEmax = Num(37257)
    /\ Len(MinorTicks) = 3

\* C17: make_xticks_info with a stride below 1 fails and returns no ticks.
C17_InvalidStride ==
    (pc = "idle" /\ op = "make_xticks_info" /\ date_labels_pattern < 1) =>
        (err # "none" /\ xticks_info = <<>>)

\* the year and the month of a tick, found by counting days
DateOfTick(x) == CHOOSE ym \in MonthStarts : StartOf(ym) = x

Digit == <<"0", "1", "2", "3", "4", "5", "6", "7", "8", "9">>
TwoDigits(n) == Digit[((n % 100) \div 10) + 1] \o Digit[(n % 10) + 1]
FourDigits(n) == TwoDigits(n \div 100) \o TwoDigits(n)

\* the table of month names of the configured language
ConfiguredNames ==
    IF language \in {"French", "french"} THEN month_names_fr
    ELSE month_names_en

\* the label of the specification for a tick on the first day of a month
ExpectedLabel(ym) ==
    IF str_lower(datemode) = "month"
    THEN ConfiguredNames[ym[2]] \o " '" \o TwoDigits(ym[1])
    ELSE FourDigits(ym[1])

\* C18: the label of a major tick is, by months, the short month name of the
\* tick's month in the configured language (English for an unsupported one),
\* a space, an apostrophe and the last two digits of the tick's year, and by
\* years the four digits of the tick's year.
C18_Labels ==
    /\ language \in {"english", "English", "French"}
    /\ TicksReturned =>
          \A j \in 1..Len(MajorTicks) :
              /\ IsStart(MajorTicks[j], MonthStarts)
              /\ TickLabels[j] = ExpectedLabel(DateOfTick(MajorTicks[j]))

\* French labels of every month, from JAN '00 over FÉV '00 to DÉC '00
C18_Witness ==
    /\ TicksReturned
    /\ language = "French"
    /\ date_labels_pattern = 1
    /\ Len(TickLabels) >= 13
    /\ TickLabels[2] = "FÉV '00"
    /\ TickLabels[12] = "DÉC '00"
    /\ TickLabels[13] = "JAN '01"

-----------------------------------------------------------------------------
(* Properties of the input series *)

SameSeries(y, x) == Len(y) = Len(x) /\ \A k \in 1..Len(x) : y[k] = x[k]

\* C19: with a bin width of one day resample_bin gives, for the time, Tmax,
\* Ptot and Rain series, a series equal element for element to the daily
\* series and held in an array of its own, not in the array of the daily
\* series.
C19_DailyCopy ==
    (op = "resample_bin" /\ bwidth_indx = 0) =>
        /\ err = "none"
        /\ bwidth = 1
        /\ SameSeries(bTIME, TIMEmeteo)
        /\ SameSeries(bTMAX, TMAX)
        /\ SameSeries(bPTOT, PTOT)
        /\ SameSeries(bRAIN, RAIN)
        /\ shared = {}

\* daily bins of a series with missing days
C19_Witness ==
    /\ op = "resample_bin" /\ bwidth_indx = 0
    /\ Len(bPTOT) >= 7
    /\ \E k \in 1..Len(bPTOT) : IsNaN(bPTOT[k])
    /\ bPTOT = PTOT

\* C20: resample_bin (with bin_sum), best_fit_waterlvl and best_fit_time
\* leave the daily weather series, the water levels and the time stamps
\* element for element as they were.
C20_InputsUnchanged ==
    [][op' \in {"resample_bin", "best_fit_waterlvl", "best_fit_time"} =>
          /\ TIMEmeteo' = TIMEmeteo
          /\ TMAX' = TMAX
          /\ PTOT' = PTOT
          /\ RAIN' = RAIN
          /\ wldset' = wldset
          /\ xldates' = xldates]_vars

\* the three operations have run on series with missing values
C20_Witness ==
    /\ op = "best_fit_waterlvl" /\ err = "none"
    /\ \E k \in 1..Len(wldset.WL) : IsNaN(wldset.WL[k])
    /\ bwidth = 7 /\ Len(bPTOT) = 4
    /\ date1 = <<2000, 12, 1>>

-----------------------------------------------------------------------------
(* Properties of failing and repeated calls *)

FitOperations == {"best_fit_waterlvl", "best_fit_time"}

\* C21: a call of best_fit_waterlvl or best_fit_time that raises leaves
\* WLscale, WLmin, TIMEmin and TIMEmax with the values they had before the
\* call.
C21_FailureAtomic ==
    [][(op' \in FitOperations /\ err' # "none") =>
          /\ WLscale' = WLscale
          /\ WLmin' = WLmin
          /\ TIMEmin' = TIMEmin
          /\ TIMEmax' = TIMEmax]_vars

\* the result of a call of best_fit_waterlvl on the water levels, the datum
\* and the grid divisions of the figure
WaterlvlRun == fit_waterlvl(wldset, WLdatum, NZGrid)
\* the result of a call of best_fit_time on the time stamps of the figure
TimeRun == fit_time(xldates)

\* the sums and the means of the successive windows of width w of x
WindowSums(x, w) ==
    [k \in 1..(Len(x) \div w) |-> np_sum(SubSeq(x, (k - 1) * w + 1, k * w))]
WindowMeans(x, w) ==
    [k \in 1..(Len(x) \div w) |->
        FDiv(np_sum(SubSeq(x, (k - 1) * w + 1, k * w)), Num(w))]

\* the binned series are those of the daily series and of the bin width
BinsRun ==
    IF bwidth_indx = 0
    THEN /\ bTIME = TIMEmeteo /\ bTMAX = TMAX
         /\ bPTOT = PTOT /\ bRAIN = RAIN
    ELSE /\ bTIME = WindowMeans(TIMEmeteo, bwidth)
         /\ bTMAX = WindowMeans(TMAX, bwidth)
         /\ bPTOT = WindowSums(PTOT, bwidth)
         /\ bRAIN = WindowSums(RAIN, bwidth)

\* C23: the outcome of a call of best_fit_waterlvl, best_fit_time or
\* resample_bin (the exception raised and, when the call returns, the scale,
\* the bounds or the binned arrays stored) is a function of the input series
\* and of the configuration alone, whatever values the figure held before.
C23_Independent ==
    /\ op = "best_fit_waterlvl" =>
          /\ err = WaterlvlRun.err
          /\ err = "none" =>
                WLscale = WaterlvlRun.WLscale /\ WLmin = WaterlvlRun.WLmin
    /\ op = "best_fit_time" =>
          /\ err = TimeRun.err
          /\ err = "none" =>
                /\ TIMEmin = TimeRun.TIMEmin /\ TIMEmax = TimeRun.TIMEmax
                /\ date0 = TimeRun.date0 /\ date1 = TimeRun.date1
    /\ op = "resample_bin" =>
          /\ err = "none"
          /\ bwidth = BinWidths[bwidth_indx + 1]
          /\ BinsRun

\* a fit in the masl datum on a figure that holds the bounds and the bins of
\* earlier calls and whose origin differs from the one of the mbgs datum
C23_Witness ==
    /\ op = "best_fit_waterlvl" /\ err = "none"
    /\ WLdatum = 1
    /\ WLmin # fit_waterlvl(wldset, 0, NZGrid).WLmin
    /\ TIMEmax # Num(TIME0)
    /\ bwidth = 30 /\ Len(bPTOT) = 1

-----------------------------------------------------------------------------
(* Properties of the scale of the water level axis *)

AfterScale == op = "setup_waterlvl_scale" /\ err = "none"

\* the far end of an axis of n grid divisions that starts at WLmin
FarEnd(n) ==
    IF WLdatum = 1
    THEN ax2_ymin = WLmin /\ ax2_ymax = FAdd(WLmin, FMul(Num(n), WLscale))
    ELSE ax2_ymax = WLmin /\ ax2_ymin = FSub(WLmin, FMul(Num(n), WLscale))

\* C22 as stated: the far end of the axis set by setup_waterlvl_scale is
\* WLmin + NZGrid*WLscale (masl) or WLmin - NZGrid*WLscale (mbgs), weather
\* panel shown or hidden.
C22_FarEnd == AfterScale => FarEnd(NZGrid)

\* the grid divisions of the water level axis
Divisions == IF meteo_on THEN NZGrid ELSE NZGrid - 2

\* C22 amended: the far end of the axis set by setup_waterlvl_scale is WLmin
\* plus (masl) or minus (mbgs) gridDivisions*WLscale, where gridDivisions is
\* NZGrid with the weather panel shown and NZGrid - 2 with it hidden; the
\* bottom grid has the same number of divisions.
C22_FarEndDivisions ==
    AfterScale => FarEnd(Divisions) /\ axLow_ymax = Num(Divisions)

\* a hidden weather panel in the mbgs datum: six divisions for NZGrid = 8
C22_Witness ==
    /\ AfterScale
    /\ ~meteo_on /\ WLdatum = 0 /\ NZGrid = 8
    /\ WLscale = Num(5)
    /\ ax2_ymax = WLmin
    /\ ax2_ymin = FSub(WLmin, FMul(Num(6), WLscale))
    /\ Len(ax2_yticks) = 7

\* the axis was scaled with the step and the origin that best_fit_waterlvl
\* returns for the dataset, the datum and the grid divisions of the figure
FreshScale ==
    /\ AfterScale
    /\ fit_waterlvl(wldset, WLdatum, NZGrid).err = "none"
    /\ WLscale = fit_waterlvl(wldset, WLdatum, NZGrid).WLscale
    /\ WLmin = fit_waterlvl(wldset, WLdatum, NZGrid).WLmin

\* the values the axis shows: the depths, or the elevations in the masl datum
ShownValues ==
    {IF WLdatum = 1 THEN FSub(wldset.Elevation, x) ELSE x : x \in Levels}

WithinLimits == \A v \in ShownValues : FLeq(ax2_ymin, v) /\ FLeq(v, ax2_ymax)

\* C25 as stated: after best_fit_waterlvl followed by setup_waterlvl_scale
\* every water level that is not NaN lies within the limits [ymin, ymax] of
\* the value axis, in both datums, for every NZGrid, weather shown or hidden.
C25_WithinLimits == FreshScale => WithinLimits

\* the fitted step times the grid divisions but one covers the data range
StepCovers ==
    FLeq(FSub(HighestValue, LowestValue), FMul(Num(Divisions - 1), WLscale))

\* C25 amended: after best_fit_waterlvl followed by setup_waterlvl_scale no
\* water level lies beyond the origin end of the value axis (ymax in the
\* mbgs datum, ymin in the masl datum), and every water level lies within
\* [ymin, ymax] whenever (gridDivisions - 1) * step is at least max - min,
\* gridDivisions being NZGrid with weather shown and NZGrid - 2 without.
C25_WithinLimitsCovered ==
    FreshScale =>
        /\ \A v \in ShownValues :
              IF WLdatum = 1 THEN FLeq(ax2_ymin, v) ELSE FLeq(v, ax2_ymax)
        /\ StepCovers => WithinLimits

\* elevations with a missing value on an axis of six divisions, the weather
\* panel hidden, whose origin is below the lowest elevation
C25_Witness ==
    /\ FreshScale /\ StepCovers
    /\ WLdatum = 1 /\ ~meteo_on /\ NZGrid = 8
    /\ \E i \in 1..Len(wldset.WL) : IsNaN(wldset.WL[i])
    /\ FLess(ax2_ymin, LowestValue)
    /\ FLess(HighestValue, ax2_ymax)

-----------------------------------------------------------------------------
(* Properties of the calendar walk of the ticks *)

\* the month after a month
MonthAfter(ym) ==
    IF ym[2] = 12 THEN <<ym[1] + 1, 1>> ELSE <<ym[1], ym[2] + 1>>

\* C27: by months, from a TIMEmin on the first day of a month, every minor
\* tick of make_xticks_info is the first day of a calendar month and each tick
\* is the first day of the month after the month of the tick before it,
\* whatever the length of the month and across the end of the year.
C27_MonthStarts ==
    (/\ TicksReturned
     /\ str_lower(datemode) = "month"
     /\ IsStart(TIMEmin, MonthStarts)) =>
        /\ \A k \in 1..Len(MinorTicks) : IsStart(MinorTicks[k], MonthStarts)
        /\ \A k \in 1..(Len(MinorTicks) - 1) :
              DateOfTick(MinorTicks[k + 1]) =
                  MonthAfter(DateOfTick(MinorTicks[k]))

\* ticks from January 2000 on: over the 29 days of February 2000, the end of
\* the year 2000, the 28 days of February 2001 and the 30 days of April 2001
C27_Witness ==
    /\ TicksReturned
    /\ str_lower(datemode) = "month"
    /\ TIMEmin = Num(36526)
    /\ Len(MinorTicks) >= 17
    /\ MinorTicks[3] = FAdd(MinorTicks[2], Num(29))
    /\ MinorTicks[13] = FAdd(MinorTicks[12], Num(31))
    /\ DateOfTick(MinorTicks[13]) = <<2001, 1>>
    /\ MinorTicks[15] = FAdd(MinorTicks[14], Num(28))
    /\ MinorTicks[17] = FAdd(MinorTicks[16], Num(30))

\* make_xticks_info has returned ticks for limits in increasing order
WalkReturned == TicksReturned /\ FLeq(TIMEmin, TIMEmax)

\* C26: for TIMEmin <= TIMEmax, by months or by years, the loop of
\* make_xticks_info is left after finitely many iterations, and the minor
\* ticks returned are strictly increasing, start with TIMEmin and all lie in
\* [TIMEmin, TIMEmax].
C26_Walk ==
    /\ [](WalkReturned =>
            /\ Len(MinorTicks) >= 1
            /\ MinorTicks[1] = TIMEmin
            /\ \A k \in 1..Len(MinorTicks) :
                  FLeq(TIMEmin, MinorTicks[k]) /\ FLeq(MinorTicks[k], TIMEmax)
            /\ \A k \in 1..(Len(MinorTicks) - 1) :
                  FLess(MinorTicks[k], MinorTicks[k + 1]))
    /\ (pc = "xticks" /\ FLeq(TIMEmin, TIMEmax)) ~> (pc # "xticks")

\* ticks by years from noon of 2000-01-15 to 2002-01-01: the first tick is
\* TIMEmin itself and the last one is TIMEmax
C26_Witness ==
    /\ WalkReturned
    /\ str_lower(datemode) = "year"
    /\ TIMEmin = Rat(73081, 2) /\ TIMEmax = Num(37257)
    /\ MinorTicks = <<TIMEmin, Num(36892), TIMEmax>>

-----------------------------------------------------------------------------
(* Properties of the time scale *)

\* the first day of a year, and the year of a time, found by counting days
NewYear(y) == Num(DayNumber(y, 1, 1))
YearOf(x) ==
    CHOOSE y \in 1999..2003 : FLeq(NewYear(y), x) /\ FLess(x, NewYear(y + 1))
IsNewYearDay(x) == FLess(x, FAdd(NewYear(YearOf(x)), Num(1)))

\* C28: by years, a call of set_time_scale that returns moves TIMEmin to the
\* first of January of its year and TIMEmax to the first of January of the
\* next year unless TIMEmax is on a first of January; the new range contains
\* the old one, the limits are a fixed point of the rule and a second call
\* leaves them unchanged; by months the limits are unchanged.  The limits do
\* not change in the rest of the call.
C28_TimeScale ==
    [][/\ (pc = "idle" /\ op' = "set_time_scale" /\ err' = "none") =>
            IF str_lower(datemode) = "year"
            THEN /\ TIMEmin' = NewYear(YearOf(TIMEmin))
                 /\ TIMEmax' = IF IsNewYearDay(TIMEmax) THEN TIMEmax
                                ELSE NewYear(YearOf(TIMEmax) + 1)
                 /\ FLeq(TIMEmin', TIMEmin) /\ FLeq(TIMEmax, TIMEmax')
            ELSE TIMEmin' = TIMEmin /\ TIMEmax' = TIMEmax
       /\ (pc = "idle" /\ op = "set_time_scale" /\ err = "none") =>
              /\ time_scale_limits.err = "none"
              /\ time_scale_limits.TIMEmin = TIMEmin
              /\ time_scale_limits.TIMEmax = TIMEmax
              /\ op' = "set_time_scale" =>
                    TIMEmin' = TIMEmin /\ TIMEmax' = TIMEmax
       /\ pc # "idle" => TIMEmin' = TIMEmin /\ TIMEmax' = TIMEmax]_vars

\* by years, limits from 2000-01-15 to 2000-12-31 became 2000-01-01 and
\* 2001-01-01, and the x-axis has these limits
C28_Witness ==
    /\ pc = "idle" /\ op = "set_time_scale" /\ err = "none"
    /\ str_lower(datemode) = "year"
    /\ TIMEmin = Num(36526) /\ TIMEmax = Num(36892)
    /\ ax1_xlim = <<TIMEmin, TIMEmax>>

-----------------------------------------------------------------------------
(* Properties of the weather plot *)

\* draw_weather has plotted the bars of the slice istart:iend
WeatherDrawn == PTOT_bar.kind = "PolyCollection"
\* the indices of the bins of the slice, counted from 1
SliceBins == {i \in 1..Len(bTIME) : istart < i /\ i <= iend}

\* C24: draw_weather plots only the binned data that fit within the limits
\* of the x-axis: every bin of the plotted slice istart:iend has
\* TIMEmin <= bTIME <= TIMEmax.
C24_SliceWithinLimits ==
    WeatherDrawn =>
        \A i \in SliceBins :
            FLeq(TIMEmin, bTIME[i]) /\ FLeq(bTIME[i], TIMEmax)

\* update_precip_scale has left its search loop and set the ticks of ax3
PrecipScaled ==
    /\ op \in {"update_precip_scale", "draw_weather", "generate_hydrograph"}
    /\ pc \in {"idle", "generate_end"}
    /\ err = "none"
    /\ meteo_on
    /\ WeatherDrawn /\ PTOT_bar.paths # <<>>

\* the height of the tallest bar of precipitation that is plotted
BarHeights == {bPTOT[i] : i \in SliceBins} \ {NaN}
TallestBar ==
    IF BarHeights = {} THEN Num(0)
    ELSE CHOOSE h \in BarHeights : \A g \in BarHeights : FLeq(g, h)

\* the smallest multiple of the step, not negative, strictly above t
MultipleAbove(t, step) ==
    FMul(FAdd(FFloor(FDiv(t, step)), Num(1)), step)

\* C29: the search loop of update_precip_scale terminates for every
\* RAINscale and every plotted precipitation, and on exit the tick limit is
\* min(NZGrid*RAINscale, the smallest non-negative multiple of RAINscale
\* strictly greater than the tallest bar) + RAINscale/2.
C29_PrecipScale ==
    /\ [](PrecipScaled =>
            yticksmax = FAdd(FMin2(FMul(Num(NZGrid), RAINscale),
                                   MultipleAbove(TallestBar, RAINscale)),
                             FDiv(RAINscale, Num(2))))
    /\ (pc = "precip") ~> (pc # "precip")

-----------------------------------------------------------------------------
(* Properties of the settings of the figure *)

Setters ==
    {"set_meteo_on", "set_glue_wl_on", "set_mrc_wl_on", "set_gluedf",
     "update_colors"}

\* a call of one of the setters
SetterCall == pc = "idle" /\ op' \in Setters

\* generate_hydrograph has not created the artists of the figure yet, which
\* it does before it completes for the first time
BeforeArtists == ~(Attributes \subseteq created)

\* the last step of generate_hydrograph
Completion == pc = "generate_end" /\ pc' = "idle" /\ err' = "none"

\* C30: isHydrographExists becomes true only when generate_hydrograph runs
\* to completion, and is false after clf; set_meteo_on, set_glue_wl_on,
\* set_mrc_wl_on, set_gluedf and update_colors, called before the first
\* completed generate_hydrograph, only record the setting: they raise no
\* exception for a missing attribute and leave the axes and the weather
\* plot as they are.
C30_Settings ==
    [][ /\ __isHydrographExists' => __isHydrographExists \/ Completion
        /\ op' = "clf" /\ pc = "idle" => ~__isHydrographExists'
        /\ SetterCall /\ BeforeArtists =>
              /\ err' = "none"
              /\ pc' = "idle"
              /\ UNCHANGED <<axes, axisVars, weatherVars>> ]_vars

====
